---- MODULE Spec2Model ----
(***************************************************************************)
(* Model of typed-handler: the immutable Handler builder (src/handler.ts), *)
(* its execute() pipeline, the validator detection (validators/) and the   *)
(* process-wide configuration (config.ts).                                 *)
(*                                                                         *)
(* Handlers are objects with identity: `handlers` is the heap of Handler   *)
(* instances (identity = index), `arrays` the heap of middleware arrays    *)
(* (a Handler holds a reference to its array, so that aliasing between a   *)
(* clone and its parent is something the model can express).               *)
(***************************************************************************)
EXTENDS Integers, Sequences, FiniteSets, TLC

VARIABLES
    handlers,      \* heap of Handler instances, Seq of handler records
    arrays,        \* heap of middleware arrays, Seq of Seq(middleware name)
    lastCall,      \* the last builder call, its receiver, argument and return value
    globalConfig,  \* config.ts: let globalConfig
    nodeEnv,       \* process.env.NODE_ENV, read once when config.ts is loaded
    registeredAdapters, \* registry.ts: const registeredAdapters
    execs,         \* the execute() calls started so far, Seq of call records
    instanceOverrides, \* for each Handler instance, the config argument of the
                   \* handler(config) call its chain started with
    detected,      \* the last direct detectValidator(schema) call and its result
    configCopies,  \* the objects getConfig() has returned to callers, each with
                   \* its fields and whether it is the globalConfig object itself
    responses      \* the calls of framework callbacks (toExpress, toFastify,
                   \* toHono), each with the calls it has made on res / reply /
                   \* c / next and what the callback returned or rejected with

vars == <<handlers, arrays, lastCall, globalConfig, nodeEnv, registeredAdapters, execs,
          instanceOverrides, detected, configCopies, responses>>

----------------------------------------------------------------------------
(* Bounds *)

MaxHandlers == 4     \* Handler instances created in the builder specification
MaxMw == 2           \* middlewares registered on one handler in the pipeline specification

----------------------------------------------------------------------------
(* Schema values.  A schema is an opaque third-party value; the code only   *)
(* looks at its structure.  Each name stands for one JavaScript value:      *)
(*   "U"   undefined (the argument was omitted)                             *)
(*   "Z"   a zod schema      "J"  a joi schema      "Y"  a yup schema       *)
(*   "P"   a plain object {foo: 1}, matched by no built-in adapter          *)
(*   "MBQ" the plain object {body: Z, query: P}                             *)
(*   "MQH" the plain object {query: J, headers: Y}                          *)
(*   "MHPB" the plain object {headers: Y, params: Z, body: Z}, written in   *)
(*         that order                                                       *)
(*   "PM"  the plain object {body: Z, validate() {...}}                     *)
(*   "A"   the array [Z]     "AB" an array that also carries a body property*)
(*   "S"   a string          "N"  null                                      *)
(*   "ZY"  an object carrying both zod's and yup's marks                    *)

\* the reserved keys walked from headers to body
ReservedKeysReversed == <<"headers", "params", "query", "body">>

ReservedKeys == <<"body", "query", "params", "headers">>

\* typeof schema === "object" && schema !== null && !Array.isArray(schema)
IsPlainOrInstance(s) == s \in {"Z", "J", "Y", "ZY", "P", "MBQ", "MQH", "MHPB", "PM"}

\* the property names for which `key in schema` is true
InKeys(s) ==
    CASE s = "Z"   -> {"_def", "parse", "parseAsync", "safeParse"}
      [] s = "J"   -> {"$_root", "type", "validateAsync", "validate"}
      [] s = "Y"   -> {"__isYupSchema__", "validate", "validateSync", "type"}
      [] s = "ZY"  -> {"_def", "parse", "__isYupSchema__"}
      [] s = "P"   -> {"foo"}
      [] s = "MBQ" -> {"body", "query"}
      [] s = "MQH" -> {"query", "headers"}
      [] s = "MHPB" -> {"headers", "params", "body"}
      [] s = "PM"  -> {"body", "validate"}
      [] s = "A"   -> {"0", "length"}
      [] s = "AB"  -> {"0", "length", "body"}
      [] OTHER     -> {}

\* Object.keys(schema): the own enumerable property names
OwnKeys(s) ==
    CASE s = "Z"   -> {"_def", "parse", "parseAsync", "safeParse"}
      [] s = "J"   -> {"$_root", "type"}
      [] s = "Y"   -> {"__isYupSchema__", "type"}
      [] s = "A"   -> {"0"}
      [] s = "AB"  -> {"0", "body"}
      [] OTHER     -> InKeys(s)

\* Object.keys(schema) of the multi-input schema objects, in the order the
\* properties were written
KeysInOrder(s) ==
    CASE s = "MBQ"  -> <<"body", "query">>
      [] s = "MQH"  -> <<"query", "headers">>
      [] s = "MHPB" -> <<"headers", "params", "body">>
      [] OTHER      -> <<>>

\* the property names whose value is a function
FunctionKeys(s) ==
    CASE s = "Z"   -> {"parse", "parseAsync", "safeParse"}
      [] s = "J"   -> {"validateAsync", "validate"}
      [] s = "Y"   -> {"validate", "validateSync"}
      [] s = "ZY"  -> {"parse"}
      [] s = "PM"  -> {"validate"}
      [] OTHER     -> {}

\* schema[key] for a plain object whose values are schemas
PartSchema(s, key) ==
    CASE s = "MBQ" /\ key = "body"    -> "Z"
      [] s = "MBQ" /\ key = "query"   -> "P"
      [] s = "MQH" /\ key = "query"   -> "J"
      [] s = "MQH" /\ key = "headers" -> "Y"
      [] s = "MHPB" /\ key = "headers" -> "Y"
      [] s = "MHPB" /\ key = "params"  -> "Z"
      [] s = "MHPB" /\ key = "body"    -> "Z"
      [] s = "PM"  /\ key = "body"    -> "Z"
      [] s = "AB"  /\ key = "body"    -> "Z"
      [] OTHER                        -> "U"

----------------------------------------------------------------------------
(* Configuration (config.ts).  A configuration is a function from the keys  *)
(* it mentions to their values; a logger is the name of a logger object.    *)

\* { ...base, ...over }
Spread(base, over) ==
    [k \in (DOMAIN base) \cup (DOMAIN over) |->
        IF k \in DOMAIN over THEN over[k] ELSE base[k]]

defaultConfig ==
    [validateInput |-> TRUE, validateOutput |-> (nodeEnv # "production"),
     logger |-> "noopLogger"]

getConfig == Spread(<<>>, globalConfig)

\* `globalConfig = {...}` makes globalConfig a new object: no object handed
\* out before is the globalConfig object any more
Unshared(copies) == [j \in DOMAIN copies |-> [copies[j] EXCEPT !.isGlobal = FALSE]]

\* configure() merging its argument into the defaults instead of the
\* current configuration
configureFromDefaults(config) ==
    /\ globalConfig' = Spread(defaultConfig, config)
    /\ configCopies' = Unshared(configCopies)
    /\ UNCHANGED <<handlers, arrays, lastCall, nodeEnv, registeredAdapters, execs,
                   instanceOverrides, detected, responses>>

\* configure(config)
configure(config) ==
    /\ globalConfig' = Spread(globalConfig, config)
    /\ configCopies' = Unshared(configCopies)
    /\ UNCHANGED <<handlers, arrays, lastCall, nodeEnv, registeredAdapters, execs,
                   instanceOverrides, detected, responses>>

\* resetConfig() restoring the two flags only
resetConfigFlagsOnly ==
    /\ globalConfig' = Spread(globalConfig,
                              [validateInput |-> TRUE,
                               validateOutput |-> (nodeEnv # "production")])
    /\ configCopies' = Unshared(configCopies)
    /\ UNCHANGED <<handlers, arrays, lastCall, nodeEnv, registeredAdapters, execs,
                   instanceOverrides, detected, responses>>

\* resetConfig()
resetConfig ==
    /\ globalConfig' = Spread(<<>>, defaultConfig)
    /\ configCopies' = Unshared(configCopies)
    /\ UNCHANGED <<handlers, arrays, lastCall, nodeEnv, registeredAdapters, execs,
                   instanceOverrides, detected, responses>>

\* a getConfig() call that hands out the globalConfig object itself
GetConfigCallNoCopy ==
    /\ configCopies' = Append(configCopies, [config |-> globalConfig, isGlobal |-> TRUE])
    /\ UNCHANGED <<handlers, arrays, lastCall, globalConfig, nodeEnv, registeredAdapters,
                   execs, instanceOverrides, detected, responses>>

\* a getConfig() call by user code, which keeps the object it returned
GetConfigCall ==
    /\ configCopies' = Append(configCopies, [config |-> getConfig, isGlobal |-> FALSE])
    /\ UNCHANGED <<handlers, arrays, lastCall, globalConfig, nodeEnv, registeredAdapters,
                   execs, instanceOverrides, detected, responses>>

\* user code assigns to a field of an object getConfig() returned: i-th
\* object, `config[key] = value`; an assignment to the globalConfig object is
\* seen through every reference to it
AssignField(i, key, value) ==
    /\ i \in DOMAIN configCopies
    /\ configCopies' =
          [j \in DOMAIN configCopies |->
              IF j = i \/ (configCopies[i].isGlobal /\ configCopies[j].isGlobal)
              THEN [configCopies[j] EXCEPT !.config = Spread(@, [x \in {key} |-> value])]
              ELSE configCopies[j]]
    /\ globalConfig' =
          IF configCopies[i].isGlobal
          THEN Spread(globalConfig, [x \in {key} |-> value])
          ELSE globalConfig
    /\ UNCHANGED <<handlers, arrays, lastCall, nodeEnv, registeredAdapters, execs,
                   instanceOverrides, detected, responses>>

\* the partial configurations a caller passes to handler(config)
Overrides ==
    { <<>>,
      [validateInput |-> FALSE],
      [validateOutput |-> FALSE],
      [validateInput |-> FALSE, validateOutput |-> FALSE] }

----------------------------------------------------------------------------
(* The Handler class: construction and the builder methods.                 *)

NoInputValidator ==
    [present |-> FALSE, schema |-> "U", adapter |-> "", isMultiInput |-> FALSE]

NoOutputValidator ==
    [present |-> FALSE, schema |-> "U", adapter |-> ""]

\* the constructor merging the other way round: { ...config, ...getConfig() }
NewHandlerGlobalWins(config, ref) ==
    [config          |-> Spread(config, getConfig),
     inputValidator  |-> NoInputValidator,
     outputValidator |-> NoOutputValidator,
     middlewares     |-> ref,
     handlerFn       |-> ""]

\* constructor(config): this.config = { ...getConfig(), ...config }; the
\* field initialisers leave the validators and handlerFn undefined and give
\* the instance a new empty middleware array, allocated at `ref`
NewHandler(config, ref) ==
    [inputValidator  |-> NoInputValidator,
     outputValidator |-> NoOutputValidator,
     middlewares     |-> ref,
     handlerFn       |-> "",
     config          |-> Spread(getConfig, config)]

\* the clone taking the receiver's array itself, without the spread
SharedMiddlewaresRef(h, fresh) == h.middlewares

\* clone(): newHandler.middlewares = [...this.middlewares]; `fresh` is the
\* array the spread allocates

ClonedMiddlewaresRef(h, fresh) == fresh

\* clone() building the new Handler without passing this.config on
cloneWithoutConfig(h, fresh) ==
    [NewHandler(<<>>, fresh) EXCEPT
        !.inputValidator  = h.inputValidator,
        !.outputValidator = h.outputValidator,
        !.middlewares     = ClonedMiddlewaresRef(h, fresh),
        !.handlerFn       = h.handlerFn]

\* clone(): a new Handler built from this.config, with the stage fields of
\* `h` copied over
clone(h, fresh) ==
    [NewHandler(h.config, fresh) EXCEPT
        !.inputValidator  = h.inputValidator,
        !.outputValidator = h.outputValidator,
        !.middlewares     = ClonedMiddlewaresRef(h, fresh),
        !.handlerFn       = h.handlerFn]

\* detectMultiInput without its Object.keys(...).some(...) test
detectMultiInputIgnoringMethods(schema) ==
    IF ~IsPlainOrInstance(schema)
    THEN FALSE
    ELSE \E i \in DOMAIN ReservedKeys : ReservedKeys[i] \in InKeys(schema)

\* detectMultiInput(schema)
detectMultiInput(schema) ==
    IF ~IsPlainOrInstance(schema)
    THEN FALSE
    ELSE IF \E key \in OwnKeys(schema) : key \in FunctionKeys(schema)
         THEN FALSE
         ELSE \E i \in DOMAIN ReservedKeys : ReservedKeys[i] \in InKeys(schema)

\* Handler.expectsMultiInput(): this.inputValidator?.isMultiInput ?? false
expectsMultiInput(h) ==
    IF h.inputValidator.present THEN h.inputValidator.isMultiInput ELSE FALSE

\* the heap after the constructor has allocated the new, empty array
AllocEmpty == Append(arrays, <<>>)

\* the heap after clone() has allocated the copy of the receiver's array
AllocCopy(r) == Append(arrays, arrays[handlers[r].middlewares])

Call(method, receiver, arg, returned) ==
    [method |-> method, receiver |-> receiver, arg |-> arg, returned |-> returned]

\* handler(config): new Handler(config)
Factory(config) ==
    /\ handlers' = Append(handlers, NewHandler(config, Len(arrays) + 1))
    /\ arrays' = AllocEmpty
    /\ lastCall' = Call("handler", 0, "", Len(handlers) + 1)
    /\ instanceOverrides' = Append(instanceOverrides, config)
    /\ UNCHANGED <<globalConfig, nodeEnv, registeredAdapters, execs, detected, configCopies,
                   responses>>

\* input() storing the validator on the receiver and returning it, without
\* the clone
InputOnReceiver(r, schema, adapter) ==
    /\ r \in DOMAIN handlers
    /\ handlers' =
          IF schema = "U"
          THEN handlers
          ELSE [handlers EXCEPT ![r].inputValidator =
                   [present |-> TRUE, schema |-> schema, adapter |-> adapter,
                    isMultiInput |-> detectMultiInput(schema)]]
    /\ lastCall' = Call("input", r, schema, r)
    /\ UNCHANGED <<arrays, globalConfig, nodeEnv, registeredAdapters, execs,
                   instanceOverrides, detected, configCopies, responses>>

\* input() falling back, when no adapter is given, on the explicit adapter of
\* the validator the receiver already has
InputKeepsAdapter(r, schema, adapter) ==
    /\ r \in DOMAIN handlers
    /\ LET newHandler == clone(handlers[r], Len(arrays) + 1)
           earlier == handlers[r].inputValidator
       IN  handlers' = Append(handlers,
              IF schema = "U"
              THEN newHandler
              ELSE [newHandler EXCEPT !.inputValidator =
                       [present |-> TRUE, schema |-> schema,
                        adapter |-> IF adapter = "" /\ earlier.present
                                    THEN earlier.adapter
                                    ELSE adapter,
                        isMultiInput |-> detectMultiInput(schema)]])
    /\ arrays' = AllocCopy(r)
    /\ lastCall' = Call("input", r, schema, Len(handlers) + 1)
    /\ instanceOverrides' = Append(instanceOverrides, instanceOverrides[r])
    /\ UNCHANGED <<globalConfig, nodeEnv, registeredAdapters, execs, detected, configCopies,
                   responses>>

\* Handler.input(schema, adapter)
Input(r, schema, adapter) ==
    /\ r \in DOMAIN handlers
    /\ LET newHandler == clone(handlers[r], Len(arrays) + 1)
       IN  handlers' = Append(handlers,
              IF schema = "U"
              THEN newHandler
              ELSE [newHandler EXCEPT !.inputValidator =
                       [present |-> TRUE, schema |-> schema, adapter |-> adapter,
                        isMultiInput |-> detectMultiInput(schema)]])
    /\ arrays' = AllocCopy(r)
    /\ lastCall' = Call("input", r, schema, Len(handlers) + 1)
    /\ instanceOverrides' = Append(instanceOverrides, instanceOverrides[r])
    /\ UNCHANGED <<globalConfig, nodeEnv, registeredAdapters, execs, detected, configCopies,
                   responses>>

\* Handler.use(middleware): the push goes to the array the clone refers to
Use(r, middleware) ==
    /\ r \in DOMAIN handlers
    /\ LET newHandler == clone(handlers[r], Len(arrays) + 1)
       IN  /\ handlers' = Append(handlers, newHandler)
           /\ arrays' = [AllocCopy(r) EXCEPT ![newHandler.middlewares] = Append(@, middleware)]
    /\ lastCall' = Call("use", r, middleware, Len(handlers) + 1)
    /\ instanceOverrides' = Append(instanceOverrides, instanceOverrides[r])
    /\ UNCHANGED <<globalConfig, nodeEnv, registeredAdapters, execs, detected, configCopies,
                   responses>>

\* Handler.handle(fn)
Handle(r, fn) ==
    /\ r \in DOMAIN handlers
    /\ handlers' = Append(handlers,
          [clone(handlers[r], Len(arrays) + 1) EXCEPT !.handlerFn = fn])
    /\ arrays' = AllocCopy(r)
    /\ lastCall' = Call("handle", r, fn, Len(handlers) + 1)
    /\ instanceOverrides' = Append(instanceOverrides, instanceOverrides[r])
    /\ UNCHANGED <<globalConfig, nodeEnv, registeredAdapters, execs, detected, configCopies,
                   responses>>

\* Handler.output(schema, adapter)
Output(r, schema, adapter) ==
    /\ r \in DOMAIN handlers
    /\ LET newHandler == clone(handlers[r], Len(arrays) + 1)
       IN  handlers' = Append(handlers,
              IF schema = "U"
              THEN newHandler
              ELSE [newHandler EXCEPT !.outputValidator =
                       [present |-> TRUE, schema |-> schema, adapter |-> adapter]])
    /\ arrays' = AllocCopy(r)
    /\ lastCall' = Call("output", r, schema, Len(handlers) + 1)
    /\ instanceOverrides' = Append(instanceOverrides, instanceOverrides[r])
    /\ UNCHANGED <<globalConfig, nodeEnv, registeredAdapters, execs, detected, configCopies,
                   responses>>

\* handler.transform(fn): the Handler class defines no transform member, so
\* the property read yields undefined and the call throws a TypeError; no
\* instance is returned (returned = 0)
Transform(r, fn) ==
    /\ r \in DOMAIN handlers
    /\ lastCall' = Call("transform", r, fn, 0)
    /\ UNCHANGED <<handlers, arrays, globalConfig, nodeEnv, registeredAdapters, execs,
                   instanceOverrides, detected, configCopies, responses>>

----------------------------------------------------------------------------
(* The builder specification: any builder call on any existing instance.    *)

ChainSchemas == {"U", "Z", "MBQ"}
ChainMiddlewares == {"m1", "m2"}
ChainFns == {"f1", "f2"}
ChainOverrides == {<<>>, [validateInput |-> FALSE]}

InitChain ==
    /\ handlers = <<>>
    /\ arrays = <<>>
    /\ lastCall = Call("", 0, "", 0)
    /\ nodeEnv = "test"
    /\ globalConfig = defaultConfig
    /\ registeredAdapters = <<>>
    /\ execs = <<>>
    /\ instanceOverrides = <<>>
    /\ detected = [schema |-> "U", adapter |-> ""]
    /\ configCopies = <<>>
    /\ responses = <<>>

NextChain ==
    \/ /\ Len(handlers) < MaxHandlers
       /\ \E config \in ChainOverrides : Factory(config)
    \/ /\ Len(handlers) < MaxHandlers
       /\ \E r \in DOMAIN handlers, schema \in ChainSchemas : Input(r, schema, "")
    \/ /\ Len(handlers) < MaxHandlers
       /\ \E r \in DOMAIN handlers, m \in ChainMiddlewares : Use(r, m)
    \/ /\ Len(handlers) < MaxHandlers
       /\ \E r \in DOMAIN handlers, fn \in ChainFns : Handle(r, fn)
    \/ /\ Len(handlers) < MaxHandlers
       /\ \E r \in DOMAIN handlers, schema \in {"U", "Z"} : Output(r, schema, "")
    \/ \E r \in DOMAIN handlers : Transform(r, "t1")

SpecChain == InitChain /\ [][NextChain]_vars


----------------------------------------------------------------------------
(* Values flowing through execute().  Every value is a record with a tag.   *)

Undefined == [tag |-> "undefined"]

Prim(v) == [tag |-> "prim", v |-> v]

\* an object with the given properties
Obj(f) == [tag |-> "obj", f |-> f]

\* the whole raw input where the part is meant
GetWhole(data, key) == data

\* data[key]
Get(data, key) ==
    IF data.tag = "obj" /\ key \in DOMAIN data.f THEN data.f[key] ELSE Undefined

\* what adapter.parse(schema, data) resolves to for the named adapter: the
\* validator library's value, which is not the value it was given
Parsed(adapter, schema, data) ==
    [tag |-> "parsed", by |-> adapter, schema |-> schema, of |-> data]

\* a number
Num(n) == [tag |-> "num", v |-> n]

\* the headers of the response envelope the handler functions below return
EnvelopeHeaders ==
    Obj(("X-Custom-Header" :> Prim("custom-value")) @@ ("X-Request-Id" :> Prim("123-456-789")))

\* what the handler function fn resolves to when called with (input, context):
\* fEnvelope returns {status: 201, body, headers}, fNoHeaders {status: 201,
\* body}, fStringStatus {status: "201", body}; any other function returns an
\* object of its own that has no status and no body property
HandlerOutput(fn, input, context) ==
    CASE fn = "fEnvelope" ->
            Obj([status |-> Num(201), body |-> Prim("created"), headers |-> EnvelopeHeaders])
      [] fn = "fNoHeaders" ->
            Obj([status |-> Num(201), body |-> Prim("created")])
      [] fn = "fStringStatus" ->
            Obj([status |-> Prim("201"), body |-> Prim("created")])
      [] OTHER ->
            [tag |-> "out", fn |-> fn, input |-> input, context |-> context]

\* an error object (or, with class "", a thrown value that is no Error)
Err(class, id, message, value, originalError) ==
    [tag |-> "error", class |-> class, id |-> id, message |-> message,
     value |-> value, originalError |-> originalError]

\* error instanceof Error
InstanceofError(error) == error.class \in {"Error", "ValidationError", "HandlerError"}

\* error instanceof ValidationError
InstanceofValidationError(error) == error.class = "ValidationError"

\* values user code and validator libraries throw
PlainError == Err("Error", "e1", "boom", Undefined, Undefined)
ThrownValidationError == Err("ValidationError", "ve1", "custom", Prim("field"), Undefined)
ThrownHandlerError == Err("HandlerError", "he1", "forbidden", Undefined, Undefined)
ThrownString == Err("", "s1", "boom", Undefined, Undefined)

ParseThrows == {PlainError, ThrownValidationError, ThrownString}
UserThrows == {PlainError, ThrownHandlerError, ThrownString}

\* the fragment each middleware returns
MiddlewareResult(m) ==
    CASE m = "m1" -> [a |-> "1", b |-> "1"]
      [] m = "m2" -> [b |-> "2"]
      [] OTHER    -> <<>>

----------------------------------------------------------------------------
(* Validator detection (validators/adapters.ts, validators/detector.ts).    *)

\* schema && typeof schema === "object"
TypeofObject(s) ==
    s \in {"Z", "J", "Y", "ZY", "P", "MBQ", "MQH", "MHPB", "PM", "A", "AB"}

builtInAdapters == <<"zod", "joi", "yup">>

\* adapter.detect && adapter.detect(schema); "X" is a custom adapter without
\* a detect function, "C" a custom adapter whose detect accepts everything,
\* "CP" a custom adapter whose detect accepts the objects with a foo property
Detect(adapter, schema) ==
    CASE adapter = "zod" ->
            TypeofObject(schema) /\ "_def" \in InKeys(schema) /\ "parse" \in InKeys(schema)
      [] adapter = "joi" ->
            /\ TypeofObject(schema)
            /\ "$_root" \in InKeys(schema) /\ "type" \in InKeys(schema)
            /\ "validateAsync" \in InKeys(schema)
            /\ "validateAsync" \in FunctionKeys(schema)
      [] adapter = "yup" ->
            TypeofObject(schema) /\ "__isYupSchema__" \in InKeys(schema)
      [] adapter = "C" -> TRUE
      [] adapter = "CP" -> TypeofObject(schema) /\ "foo" \in InKeys(schema)
      [] OTHER -> FALSE

\* the first element of the list whose detect accepts the schema, or ""
FirstMatch(list, schema) ==
    IF \E i \in DOMAIN list : Detect(list[i], schema)
    THEN list[CHOOSE i \in DOMAIN list :
                /\ Detect(list[i], schema)
                /\ \A j \in 1..(i - 1) : ~Detect(list[j], schema)]
    ELSE ""

\* detection that looks at the built-in adapters only, as a lookup made
\* before anything was registered would
detectValidatorIgnoringRegistry(schema) == FirstMatch(builtInAdapters, schema)

\* detectValidator consulting the built-in adapters before the registry
detectValidatorBuiltInsFirst(schema) ==
    IF FirstMatch(builtInAdapters, schema) # ""
    THEN FirstMatch(builtInAdapters, schema)
    ELSE FirstMatch(registeredAdapters, schema)

\* detectValidator(schema): "" stands for null
detectValidator(schema) ==
    IF FirstMatch(registeredAdapters, schema) # ""
    THEN FirstMatch(registeredAdapters, schema)
    ELSE FirstMatch(builtInAdapters, schema)

\* registerAdapter(adapter)
registerAdapter(adapter) ==
    /\ registeredAdapters' = Append(registeredAdapters, adapter)
    /\ UNCHANGED <<handlers, arrays, lastCall, globalConfig, nodeEnv, execs,
                   instanceOverrides, detected, configCopies, responses>>

\* clearAdapters()
clearAdapters ==
    /\ registeredAdapters' = <<>>
    /\ UNCHANGED <<handlers, arrays, lastCall, globalConfig, nodeEnv, execs,
                   instanceOverrides, detected, configCopies, responses>>

\* a direct call detectValidator(schema), with what it returned
DetectValidatorCall(schema) ==
    /\ detected' = [schema |-> schema, adapter |-> detectValidator(schema)]
    /\ UNCHANGED <<handlers, arrays, lastCall, globalConfig, nodeEnv, registeredAdapters,
                   execs, instanceOverrides, configCopies, responses>>

----------------------------------------------------------------------------
(* execute().  One record per call; `pc` is the await the call is suspended *)
(* at, `trace` the calls it has made to user code, adapters and the logger. *)
(* An await on a promise that is already settled is part of the step that   *)
(* settled it.                                                              *)

Evt(ev, stage, idx, who, data, context) ==
    [ev |-> ev, stage |-> stage, idx |-> idx, who |-> who, data |-> data,
     context |-> context]

\* this.config.logger.error(message, data) / .warn(message): the call, with
\* the logger it was made on
Log(e, ev, stage, message, data) ==
    [e EXCEPT !.trace =
        Append(@, [ev |-> ev, stage |-> stage, idx |-> 0, who |-> message,
                   data |-> data, context |-> <<>>,
                   logger |-> handlers[e.h].config.logger])]

\* the merge with the spread operands swapped: an earlier key wins
MergeContextEarlierWins(context, middlewareResult) == Spread(middlewareResult, context)

\* context = { ...context, ...middlewareResult }
MergeContext(context, middlewareResult) == Spread(context, middlewareResult)

\* this.middlewares of the handler the call runs on
MiddlewaresOf(e) == arrays[handlers[e.h].middlewares]

\* execute() rethrowing the error without logging it
RejectedUnlogged(e, error) == [e EXCEPT !.pc = "rejected", !.result = error]

\* execute(): catch (error) { logger.error(...); throw error }
Rejected(e, error) ==
    [Log(e, "error", "execute", "Handler execution failed", error) EXCEPT
        !.pc = "rejected", !.result = error]

\* the catch block without its instanceof ValidationError test
InputErrorAlwaysWrapped(error, data) ==
    Err("ValidationError", "new", "Validation failed", data,
        IF InstanceofError(error) THEN error ELSE Undefined)

\* validateInput(): catch (error) {...}, `data` being the whole raw input
InputError(error, data) ==
    IF InstanceofValidationError(error)
    THEN error
    ELSE Err("ValidationError", "new", "Validation failed", data,
             IF InstanceofError(error) THEN error ELSE Undefined)

\* the catch block keeping whatever was thrown as originalError
OutputErrorKeepsAnyValue(error, data) ==
    IF InstanceofValidationError(error)
    THEN error
    ELSE Err("ValidationError", "new", "Output validation failed", data, error)

\* validateOutput(): catch (error) {...}
OutputError(error, data) ==
    IF InstanceofValidationError(error)
    THEN error
    ELSE Err("ValidationError", "new", "Output validation failed", data,
             IF InstanceofError(error) THEN error ELSE Undefined)

\* the loop walking this.middlewares from its end
RunMiddlewaresReversed(e) ==
    IF e.mw < Len(MiddlewaresOf(e))
    THEN [e EXCEPT
            !.pc = "await_middleware",
            !.mw = e.mw + 1,
            !.trace = Append(@, Evt("call", "middleware", Len(MiddlewaresOf(e)) - e.mw,
                                    MiddlewaresOf(e)[Len(MiddlewaresOf(e)) - e.mw],
                                    e.validatedInput, e.context))]
    ELSE [e EXCEPT
            !.pc = "await_handler",
            !.trace = Append(@, Evt("call", "handler", 0, handlers[e.h].handlerFn,
                                    e.validatedInput, e.context))]

\* the loop handing every middleware the initial context instead of the
\* running one
RunMiddlewaresInitialContext(e) ==
    IF e.mw < Len(MiddlewaresOf(e))
    THEN [e EXCEPT
            !.pc = "await_middleware",
            !.mw = e.mw + 1,
            !.trace = Append(@, Evt("call", "middleware", e.mw + 1,
                                    MiddlewaresOf(e)[e.mw + 1],
                                    e.validatedInput, Spread(<<>>, e.initialContext)))]
    ELSE [e EXCEPT
            !.pc = "await_handler",
            !.trace = Append(@, Evt("call", "handler", 0, handlers[e.h].handlerFn,
                                    e.validatedInput, e.context))]

\* the loop calling the middlewares with the raw input of execute()
RunMiddlewaresRawInput(e) ==
    IF e.mw < Len(MiddlewaresOf(e))
    THEN [e EXCEPT
            !.pc = "await_middleware",
            !.mw = e.mw + 1,
            !.trace = Append(@, Evt("call", "middleware", e.mw + 1,
                                    MiddlewaresOf(e)[e.mw + 1],
                                    e.input, e.context))]
    ELSE [e EXCEPT
            !.pc = "await_handler",
            !.trace = Append(@, Evt("call", "handler", 0, handlers[e.h].handlerFn,
                                    e.validatedInput, e.context))]

\* the for loop over this.middlewares, from the middleware after e.mw, and
\* the call of this.handlerFn that follows it: runs up to the next await
RunMiddlewares(e) ==
    IF e.mw < Len(MiddlewaresOf(e))
    THEN [e EXCEPT
            !.pc = "await_middleware",
            !.mw = e.mw + 1,
            !.trace = Append(@, Evt("call", "middleware", e.mw + 1,
                                    MiddlewaresOf(e)[e.mw + 1],
                                    e.validatedInput, e.context))]
    ELSE [e EXCEPT
            !.pc = "await_handler",
            !.trace = Append(@, Evt("call", "handler", 0, handlers[e.h].handlerFn,
                                    e.validatedInput, e.context))]

\* `let context = initialContext`: the running context is the caller's object
AfterInputNoCopy(e, validatedInput) ==
    RunMiddlewares([e EXCEPT !.validatedInput = validatedInput,
                             !.context = e.callerContext,
                             !.contextRef = "caller"])

\* execute() once validatedInput is known:
\* let context = { ...initialContext }, then the middlewares.  The object
\* literal is a new object (contextRef "own") holding the properties the
\* caller's object has at this moment
AfterInput(e, validatedInput) ==
    RunMiddlewares([e EXCEPT !.validatedInput = validatedInput,
                             !.context = Spread(<<>>, e.callerContext),
                             !.contextRef = "own"])

\* auto-detection consulted before the explicit adapter
ResolveAdapterDetectedFirst(explicit, schema) ==
    IF detectValidator(schema) # "" THEN detectValidator(schema) ELSE explicit

\* this.inputValidator.adapter || detectValidator(schema), with the detection
\* recorded when it is consulted
ResolveAdapter(explicit, schema) ==
    IF explicit # "" THEN explicit ELSE detectValidator(schema)

Resolving(e, stage, explicit, schema) ==
    IF explicit # ""
    THEN e
    ELSE [e EXCEPT !.trace = Append(@, Evt("detect", stage, 0, detectValidator(schema),
                                           Prim(schema), <<>>))]

\* validateInput(), multi-input branch: the for loop over the reserved keys
\* from the k-th on, up to the next await
RECURSIVE ValidateParts(_, _)
ValidateParts(e, k) ==
    IF k > Len(ReservedKeys)
    THEN AfterInput(e, Obj(e.validated))
    ELSE LET iv == handlers[e.h].inputValidator
             key == ReservedKeys[k]
             partSchema == PartSchema(iv.schema, key)
             partData == Get(e.input, key)
             adapter == ResolveAdapter(iv.adapter, partSchema)
             e1 == Resolving(e, "input", iv.adapter, partSchema)
         IN  IF key \notin InKeys(iv.schema)
             THEN ValidateParts(e, k + 1)
             ELSE IF adapter # ""
                  THEN [e1 EXCEPT
                          !.pc = "await_input",
                          !.part = k,
                          !.trace = Append(@, Evt("call", "input", k, adapter,
                                                  partData, <<>>))]
                  ELSE ValidateParts(
                          [e1 EXCEPT !.validated =
                              Spread(@, [x \in {key} |-> partData])], k + 1)

\* validateInput() passing the data through without the warning
validateInputSilent(e) ==
    LET iv == handlers[e.h].inputValidator
        adapter == ResolveAdapter(iv.adapter, iv.schema)
        e1 == Resolving(e, "input", iv.adapter, iv.schema)
    IN  IF ~iv.present
        THEN AfterInput(e, e.input)
        ELSE IF iv.isMultiInput
        THEN ValidateParts(e, 1)
        ELSE IF adapter # ""
        THEN [e1 EXCEPT
                !.pc = "await_input",
                !.trace = Append(@, Evt("call", "input", 0, adapter, e.input, <<>>))]
        ELSE AfterInput(e1, e.input)

\* validateInput(data), up to the next await
validateInput(e) ==
    LET iv == handlers[e.h].inputValidator
        adapter == ResolveAdapter(iv.adapter, iv.schema)
        e1 == Resolving(e, "input", iv.adapter, iv.schema)
    IN  IF ~iv.present
        THEN AfterInput(e, e.input)
        ELSE IF iv.isMultiInput
        THEN ValidateParts(e, 1)
        ELSE IF adapter # ""
        THEN [e1 EXCEPT
                !.pc = "await_input",
                !.trace = Append(@, Evt("call", "input", 0, adapter, e.input, <<>>))]
        ELSE AfterInput(
                IF handlers[e.h].config.validateInput
                THEN Log(e1, "warn", "input",
                         "No validator adapter found for input schema, skipping validation",
                         Undefined)
                ELSE e1,
                e.input)

\* validateOutput() rejecting when it finds no adapter
validateOutputStrict(e, data) ==
    LET ov == handlers[e.h].outputValidator
        adapter == ResolveAdapter(ov.adapter, ov.schema)
        e1 == Resolving(e, "output", ov.adapter, ov.schema)
    IN  IF ~ov.present
        THEN [e EXCEPT !.pc = "resolved", !.result = data]
        ELSE IF adapter # ""
        THEN [e1 EXCEPT
                !.pc = "await_output",
                !.trace = Append(@, Evt("call", "output", 0, adapter, data, <<>>))]
        ELSE Rejected(e1, OutputError(PlainError, data))

\* validateOutput(data), up to the next await
validateOutput(e, data) ==
    LET ov == handlers[e.h].outputValidator
        adapter == ResolveAdapter(ov.adapter, ov.schema)
        e1 == Resolving(e, "output", ov.adapter, ov.schema)
    IN  IF ~ov.present
        THEN [e EXCEPT !.pc = "resolved", !.result = data]
        ELSE IF adapter # ""
        THEN [e1 EXCEPT
                !.pc = "await_output",
                !.trace = Append(@, Evt("call", "output", 0, adapter, data, <<>>))]
        ELSE [(IF handlers[e.h].config.validateOutput
               THEN Log(e1, "warn", "output",
                        "No validator adapter found for output schema, skipping validation",
                        Undefined)
               ELSE e1)
              EXCEPT !.pc = "resolved", !.result = data]

\* execute() validating whatever the flag says
AlwaysValidateInput(h) == TRUE

AlwaysValidateOutput(h) == TRUE

\* the gate read from the global configuration of the moment
InputGateLive(h) == globalConfig.validateInput

\* this.config.validateInput and this.config.validateOutput as execute() reads them
InputGate(h) == h.config.validateInput

OutputGate(h) == h.config.validateOutput

\* execute() without its test of this.handlerFn
NeverMissing(h) == FALSE

\* execute(): if (!this.handlerFn) throw ...
HandlerMissing(h) == h.handlerFn = ""

NoHandlerError == Err("Error", "nohandler", "Handler function not defined", Undefined, Undefined)

\* execute() awaiting, after the handler function, a promise nothing settles
AfterHandlerAwaitsForever(e, output) == [e EXCEPT !.output = output, !.pc = "await_never"]

\* execute(), from the handler's output on
AfterHandler(e, output) ==
    LET e1 == [e EXCEPT !.output = output]
    IN  IF OutputGate(handlers[e.h])
        THEN validateOutput(e1, output)
        ELSE [e1 EXCEPT !.pc = "resolved", !.result = output]

\* execute(input, initialContext), from the call up to the first await
BeginExecute(h, input, initialContext) ==
    LET e == [h |-> h, input |-> input, initialContext |-> initialContext,
              callerContext |-> initialContext, contextRef |-> "none",
              pc |-> "start", part |-> 0, validated |-> <<>>,
              validatedInput |-> Undefined, context |-> <<>>, mw |-> 0,
              output |-> Undefined, result |-> Undefined, trace |-> <<>>]
    IN  IF HandlerMissing(handlers[h])
        THEN Rejected(e, NoHandlerError)
        ELSE IF InputGate(handlers[h])
             THEN validateInput(e)
             ELSE AfterInput(e, input)

Settle(e, stage, idx, data) ==
    [e EXCEPT !.trace = Append(@, Evt("settle", stage, idx, "", data, <<>>))]

\* handler.execute(input, initialContext) is called
Execute(h, input, initialContext) ==
    /\ h \in DOMAIN handlers
    /\ execs' = Append(execs, BeginExecute(h, input, initialContext))
    /\ UNCHANGED <<handlers, arrays, lastCall, globalConfig, nodeEnv, registeredAdapters,
                   instanceOverrides, detected, configCopies, responses>>

\* adapter.parse(...) of validateInput() resolves
InputParseResolves(i) ==
    /\ i \in DOMAIN execs
    /\ execs[i].pc = "await_input"
    /\ LET e == execs[i]
           iv == handlers[e.h].inputValidator
           call == e.trace[Len(e.trace)]
           value == Parsed(call.who, IF iv.isMultiInput
                                     THEN PartSchema(iv.schema, ReservedKeys[e.part])
                                     ELSE iv.schema, call.data)
           e1 == Settle(e, "input", e.part, value)
       IN  execs' = [execs EXCEPT ![i] =
              IF iv.isMultiInput
              THEN ValidateParts(
                      [e1 EXCEPT !.validated =
                          Spread(@, [x \in {ReservedKeys[e.part]} |-> value])],
                      e.part + 1)
              ELSE AfterInput(e1, value)]
    /\ UNCHANGED <<handlers, arrays, lastCall, globalConfig, nodeEnv, registeredAdapters,
                   instanceOverrides, detected, configCopies, responses>>

\* adapter.parse(...) of validateInput() throws or rejects
InputParseRejects(i, error) ==
    /\ i \in DOMAIN execs
    /\ execs[i].pc = "await_input"
    /\ LET e == execs[i]
           e1 == Settle(e, "input", e.part, error)
           e2 == Log(e1, "error", "input", "Input validation failed", error)
       IN  execs' = [execs EXCEPT ![i] = Rejected(e2, InputError(error, e.input))]
    /\ UNCHANGED <<handlers, arrays, lastCall, globalConfig, nodeEnv, registeredAdapters,
                   instanceOverrides, detected, configCopies, responses>>

\* the running context kept on the handler instance instead of in a local
\* of execute(): every call in flight on the instance sees the merge
MiddlewareResolvesSharedContext(i) ==
    /\ i \in DOMAIN execs
    /\ execs[i].pc = "await_middleware"
    /\ LET e == execs[i]
           middlewareResult == MiddlewareResult(MiddlewaresOf(e)[e.mw])
           merged == MergeContext(e.context, middlewareResult)
           e1 == Settle(e, "middleware", e.mw, Obj(middlewareResult))
       IN  execs' = [j \in DOMAIN execs |->
              IF j = i
              THEN RunMiddlewares([e1 EXCEPT !.context = merged])
              ELSE IF execs[j].h = e.h
                   THEN [execs[j] EXCEPT !.context = merged]
                   ELSE execs[j]]
    /\ UNCHANGED <<handlers, arrays, lastCall, globalConfig, nodeEnv, registeredAdapters,
                   instanceOverrides, detected, configCopies, responses>>

\* the awaited middleware resolves, and the loop goes on
MiddlewareResolves(i) ==
    /\ i \in DOMAIN execs
    /\ execs[i].pc = "await_middleware"
    /\ LET e == execs[i]
           middlewareResult == MiddlewareResult(MiddlewaresOf(e)[e.mw])
           e1 == Settle(e, "middleware", e.mw, Obj(middlewareResult))
       IN  execs' = [execs EXCEPT ![i] =
              RunMiddlewares([e1 EXCEPT !.context = MergeContext(e.context, middlewareResult),
                                        !.contextRef = "own"])]
    /\ UNCHANGED <<handlers, arrays, lastCall, globalConfig, nodeEnv, registeredAdapters,
                   instanceOverrides, detected, configCopies, responses>>

\* a loop that catches what a middleware throws and goes on to the next one
MiddlewareRejectsSwallowed(i, error) ==
    /\ i \in DOMAIN execs
    /\ execs[i].pc = "await_middleware"
    /\ LET e == execs[i]
           e1 == Settle(e, "middleware", e.mw, error)
       IN  execs' = [execs EXCEPT ![i] = RunMiddlewares(e1)]
    /\ UNCHANGED <<handlers, arrays, lastCall, globalConfig, nodeEnv, registeredAdapters,
                   instanceOverrides, detected, configCopies, responses>>

\* the awaited middleware throws or rejects
MiddlewareRejects(i, error) ==
    /\ i \in DOMAIN execs
    /\ execs[i].pc = "await_middleware"
    /\ LET e == execs[i]
       IN  execs' = [execs EXCEPT ![i] =
              Rejected(Settle(e, "middleware", e.mw, error), error)]
    /\ UNCHANGED <<handlers, arrays, lastCall, globalConfig, nodeEnv, registeredAdapters,
                   instanceOverrides, detected, configCopies, responses>>

\* this.handlerFn(validatedInput, context) resolves
HandlerResolves(i) ==
    /\ i \in DOMAIN execs
    /\ execs[i].pc = "await_handler"
    /\ LET e == execs[i]
           output == HandlerOutput(handlers[e.h].handlerFn, e.validatedInput, e.context)
       IN  execs' = [execs EXCEPT ![i] = AfterHandler(Settle(e, "handler", 0, output), output)]
    /\ UNCHANGED <<handlers, arrays, lastCall, globalConfig, nodeEnv, registeredAdapters,
                   instanceOverrides, detected, configCopies, responses>>

\* execute() calling the handler function a second time when it has thrown
HandlerRejectsRetried(i, error) ==
    /\ i \in DOMAIN execs
    /\ execs[i].pc = "await_handler"
    /\ LET e == execs[i]
           e1 == Settle(e, "handler", 0, error)
       IN  execs' = [execs EXCEPT ![i] =
              IF \A p \in DOMAIN e.trace :
                    ~(e.trace[p].ev = "settle" /\ e.trace[p].stage = "handler")
              THEN [e1 EXCEPT !.trace =
                       Append(@, Evt("call", "handler", 0, handlers[e.h].handlerFn,
                                     e.validatedInput, e.context))]
              ELSE Rejected(e1, error)]
    /\ UNCHANGED <<handlers, arrays, lastCall, globalConfig, nodeEnv, registeredAdapters,
                   instanceOverrides, detected, configCopies, responses>>

\* this.handlerFn(validatedInput, context) throws or rejects
HandlerRejects(i, error) ==
    /\ i \in DOMAIN execs
    /\ execs[i].pc = "await_handler"
    /\ LET e == execs[i]
       IN  execs' = [execs EXCEPT ![i] = Rejected(Settle(e, "handler", 0, error), error)]
    /\ UNCHANGED <<handlers, arrays, lastCall, globalConfig, nodeEnv, registeredAdapters,
                   instanceOverrides, detected, configCopies, responses>>

\* adapter.parse(...) of validateOutput() resolves
OutputParseResolves(i) ==
    /\ i \in DOMAIN execs
    /\ execs[i].pc = "await_output"
    /\ LET e == execs[i]
           call == e.trace[Len(e.trace)]
           value == Parsed(call.who, handlers[e.h].outputValidator.schema, call.data)
       IN  execs' = [execs EXCEPT ![i] =
              [Settle(e, "output", 0, value) EXCEPT !.pc = "resolved", !.result = value]]
    /\ UNCHANGED <<handlers, arrays, lastCall, globalConfig, nodeEnv, registeredAdapters,
                   instanceOverrides, detected, configCopies, responses>>

\* adapter.parse(...) of validateOutput() throws or rejects
OutputParseRejects(i, error) ==
    /\ i \in DOMAIN execs
    /\ execs[i].pc = "await_output"
    /\ LET e == execs[i]
           e1 == Settle(e, "output", 0, error)
           e2 == Log(e1, "error", "output", "Output validation failed", error)
       IN  execs' = [execs EXCEPT ![i] = Rejected(e2, OutputError(error, e.output))]
    /\ UNCHANGED <<handlers, arrays, lastCall, globalConfig, nodeEnv, registeredAdapters,
                   instanceOverrides, detected, configCopies, responses>>

----------------------------------------------------------------------------
(* The pipeline specification: one handler is built by a fluent chain       *)
(* handler(config).input(..).use(..)*.handle(..).output(..), each call on   *)
(* the instance the previous one returned and any of them left out, and     *)
(* execute() is then called once on the instance the chain ended with.  A   *)
(* chain in which a call threw has produced no instance to call it on.      *)

RawInputs ==
    { Prim("d1"),
      Obj([body |-> Prim("b1"), query |-> Prim("q1"), params |-> Prim("p1"),
           extra |-> Prim("x1")]) }

InitialContexts == { <<>>, [a |-> "0", c |-> "0"] }

InputArgs ==
    { <<"Z", "">>, <<"P", "">>, <<"MBQ", "">>, <<"MQH", "">>,
      <<"P", "X">>, <<"Z", "X">>, <<"MBQ", "X">> }

OutputArgs == { <<"Z", "">>, <<"P", "">>, <<"Z", "X">> }

\* position of a builder method in the fluent chain
Rank(method) ==
    CASE method = ""        -> 0
      [] method = "handler" -> 1
      [] method = "input"   -> 2
      [] method = "use"     -> 3
      [] method = "handle"  -> 4
      [] method = "output"  -> 5
      [] OTHER              -> 6

Last == Len(handlers)

Init ==
    /\ handlers = <<>>
    /\ arrays = <<>>
    /\ lastCall = Call("", 0, "", 0)
    /\ nodeEnv = "test"
    /\ globalConfig = defaultConfig
    /\ registeredAdapters = <<>>
    /\ execs = <<>>
    /\ instanceOverrides = <<>>
    /\ detected = [schema |-> "U", adapter |-> ""]
    /\ configCopies = <<>>
    /\ responses = <<>>

\* the fluent chain: each builder call on the instance the previous one returned
Building == execs = <<>> /\ lastCall.returned = Last

Next ==
    \/ /\ handlers = <<>> /\ registeredAdapters = <<>>
       /\ registerAdapter("C")
    \/ /\ Building /\ Rank(lastCall.method) < 1
       /\ \E config \in Overrides : Factory(config)
    \/ /\ Building /\ Rank(lastCall.method) = 1
       /\ \E a \in InputArgs : Input(Last, a[1], a[2])
    \/ /\ Building /\ Rank(lastCall.method) \in 1..3
       /\ Len(arrays[handlers[Last].middlewares]) < MaxMw
       /\ \E m \in {"m1", "m2"} : Use(Last, m)
    \/ /\ Building /\ Rank(lastCall.method) \in 1..3
       /\ Handle(Last, "f1")
    \/ /\ Building /\ Rank(lastCall.method) \in 1..4
       /\ \E a \in OutputArgs : Output(Last, a[1], a[2])
    \/ /\ Building /\ Rank(lastCall.method) = 4
       /\ Transform(Last, "t1")
    \/ /\ Building /\ handlers # <<>>
       /\ \E input \in RawInputs, initialContext \in InitialContexts :
             Execute(Last, input, initialContext)
    \/ \E i \in DOMAIN execs : InputParseResolves(i)
    \/ \E i \in DOMAIN execs, error \in ParseThrows : InputParseRejects(i, error)
    \/ \E i \in DOMAIN execs : MiddlewareResolves(i)
    \/ \E i \in DOMAIN execs, error \in UserThrows : MiddlewareRejects(i, error)
    \/ \E i \in DOMAIN execs : HandlerResolves(i)
    \/ \E i \in DOMAIN execs, error \in UserThrows : HandlerRejects(i, error)
    \/ \E i \in DOMAIN execs : OutputParseResolves(i)
    \/ \E i \in DOMAIN execs, error \in ParseThrows : OutputParseRejects(i, error)

Spec == Init /\ [][Next]_vars

----------------------------------------------------------------------------
(* The detection specification: the registry is filled and cleared, and     *)
(* detectValidator(schema) and input(schema) are called with every kind of  *)
(* schema value.                                                            *)

MaxRegistered == 2   \* adapters in the registry in the detection specification

CustomAdapters == {"C", "CP", "X"}

AllSchemas == {"U", "Z", "J", "Y", "ZY", "P", "MBQ", "MQH", "PM", "A", "AB", "S", "N"}

NextDetect ==
    \/ /\ Len(registeredAdapters) < MaxRegistered
       /\ \E adapter \in CustomAdapters : registerAdapter(adapter)
    \/ clearAdapters
    \/ \E schema \in AllSchemas : DetectValidatorCall(schema)
    \/ /\ handlers = <<>>
       /\ Factory(<<>>)
    \/ /\ Len(handlers) \in 1..2
       /\ \E schema \in AllSchemas : Input(1, schema, "")

SpecDetect == Init /\ [][NextDetect]_vars

----------------------------------------------------------------------------
(* The environment specification: one fluent chain and one execute() as in  *)
(* the pipeline specification, while configure(), registerAdapter() and     *)
(* clearAdapters() are called at any moment: before the chain, between its  *)
(* calls, between the last call and execute(), and while execute() is       *)
(* suspended.                                                               *)

\* arguments of configure(config)
ConfigPartials ==
    { [validateInput |-> FALSE], [validateInput |-> TRUE],
      [validateOutput |-> FALSE], [validateOutput |-> TRUE] }

\* arguments of handler(config)
EnvOverrides ==
    { <<>>, [validateInput |-> TRUE], [validateInput |-> FALSE],
      [validateOutput |-> FALSE] }

EnvSchemas == {"U", "Z", "MBQ"}

NextEnv ==
    \/ \E config \in ConfigPartials : configure(config)
    \/ /\ registeredAdapters = <<>>
       /\ registerAdapter("C")
    \/ clearAdapters
    \/ /\ Building /\ Rank(lastCall.method) < 1
       /\ \E config \in EnvOverrides : Factory(config)
    \/ /\ Building /\ Rank(lastCall.method) \in 1..2
       /\ Len(handlers) < 3
       /\ \E schema \in EnvSchemas : Input(Last, schema, "")
    \/ /\ Building /\ Rank(lastCall.method) \in 1..2
       /\ Use(Last, "m1")
    \/ /\ Building /\ Rank(lastCall.method) \in 1..3
       /\ Handle(Last, "f1")
    \/ /\ Building /\ Rank(lastCall.method) \in 1..4
       /\ Output(Last, "Z", "")
    \/ /\ Building /\ Rank(lastCall.method) = 4
       /\ Transform(Last, "t1")
    \/ /\ Building /\ handlers # <<>>
       /\ Execute(Last, Obj([body |-> Prim("b1")]), <<>>)
    \/ \E i \in DOMAIN execs : InputParseResolves(i)
    \/ \E i \in DOMAIN execs : InputParseRejects(i, PlainError)
    \/ \E i \in DOMAIN execs : MiddlewareResolves(i)
    \/ \E i \in DOMAIN execs : MiddlewareRejects(i, PlainError)
    \/ \E i \in DOMAIN execs : HandlerResolves(i)
    \/ \E i \in DOMAIN execs : HandlerRejects(i, PlainError)
    \/ \E i \in DOMAIN execs : OutputParseResolves(i)
    \/ \E i \in DOMAIN execs : OutputParseRejects(i, PlainError)

SpecEnv == Init /\ [][NextEnv]_vars

----------------------------------------------------------------------------
(* The configuration specification: configure(), resetConfig() and          *)
(* getConfig() are called in any order, user code assigns to the fields of  *)
(* the objects getConfig() returned, and handlers are created in between.   *)

MaxCopies == 2       \* objects obtained from getConfig() and kept by user code

\* arguments of configure(config)
ConfigArgs ==
    ConfigPartials \cup
    { [logger |-> "customLogger"],
      [validateInput |-> FALSE, validateOutput |-> FALSE] }

\* the assignments user code makes to a returned object
FieldAssignments ==
    { <<"validateInput", FALSE>>, <<"validateInput", TRUE>>,
      <<"validateOutput", FALSE>>, <<"validateOutput", TRUE>> }

InitConfig ==
    /\ handlers = <<>>
    /\ arrays = <<>>
    /\ lastCall = Call("", 0, "", 0)
    /\ nodeEnv \in {"test", "production"}
    /\ globalConfig = defaultConfig
    /\ registeredAdapters = <<>>
    /\ execs = <<>>
    /\ instanceOverrides = <<>>
    /\ detected = [schema |-> "U", adapter |-> ""]
    /\ configCopies = <<>>
    /\ responses = <<>>

NextConfig ==
    \/ \E config \in ConfigArgs : configure(config)
    \/ resetConfig
    \/ /\ Len(configCopies) < MaxCopies
       /\ GetConfigCall
    \/ \E i \in DOMAIN configCopies, a \in FieldAssignments : AssignField(i, a[1], a[2])
    \/ /\ handlers = <<>>
       /\ \E config \in {<<>>, [validateOutput |-> FALSE]} : Factory(config)

SpecConfig == InitConfig /\ [][NextConfig]_vars

----------------------------------------------------------------------------
(* The concurrency specification: one fluent chain, then several execute()  *)
(* calls on the handler it built, each started at any moment and suspended  *)
(* at each of its awaits while the others run.                              *)

MaxExecs == 2        \* execute() calls in flight on one handler

\* the (input, initialContext) pairs the callers pass
ConcurrentArgs ==
    { <<Prim("d1"), [a |-> "0", c |-> "0"]>>, <<Prim("d2"), <<>> >> }

NextConcurrent ==
    \/ /\ Building /\ Rank(lastCall.method) < 1
       /\ Factory(<<>>)
    \/ /\ Building /\ Rank(lastCall.method) = 1
       /\ Input(Last, "Z", "")
    \/ /\ Building /\ Rank(lastCall.method) \in 1..3
       /\ Len(arrays[handlers[Last].middlewares]) < 2
       /\ Use(Last, IF arrays[handlers[Last].middlewares] = <<>> THEN "m1" ELSE "m2")
    \/ /\ Building /\ Rank(lastCall.method) \in 1..3
       /\ Handle(Last, "f1")
    \/ /\ Building /\ Rank(lastCall.method) = 4
       /\ Output(Last, "Z", "")
    \/ /\ handlers # <<>> /\ lastCall.returned = Last
       /\ Len(execs) < MaxExecs
       /\ \E a \in ConcurrentArgs : Execute(Last, a[1], a[2])
    \/ \E i \in DOMAIN execs : InputParseResolves(i)
    \/ \E i \in DOMAIN execs : InputParseRejects(i, PlainError)
    \/ \E i \in DOMAIN execs : MiddlewareResolves(i)
    \/ \E i \in DOMAIN execs : MiddlewareRejects(i, PlainError)
    \/ \E i \in DOMAIN execs : HandlerResolves(i)
    \/ \E i \in DOMAIN execs : HandlerRejects(i, PlainError)
    \/ \E i \in DOMAIN execs : OutputParseResolves(i)
    \/ \E i \in DOMAIN execs : OutputParseRejects(i, PlainError)

SpecConcurrent == Init /\ [][NextConcurrent]_vars

----------------------------------------------------------------------------
(* The re-attachment specification: input(), output() and handle() called   *)
(* again, in any order, on the instance the chain has reached, with and     *)
(* without a schema and with and without an explicit adapter; then one      *)
(* execute() on the last instance.                                          *)

\* arguments of input(schema, adapter); schema "U" is the call with none
ReattachInputArgs ==
    { <<"U", "">>, <<"Z", "">>, <<"Z", "X">>, <<"P", "">>, <<"MBQ", "">> }

\* arguments of output(schema, adapter)
ReattachOutputArgs == { <<"U", "">>, <<"Z", "">>, <<"Z", "X">>, <<"P", "">> }

\* arguments of execute(input)
ReattachInputs == { Prim("d1"), Obj([body |-> Prim("b1")]) }

NextReattach ==
    \/ /\ handlers = <<>>
       /\ Factory(<<>>)
    \/ /\ Building /\ Len(handlers) \in 1..(MaxHandlers - 1)
       /\ \E a \in ReattachInputArgs : Input(Last, a[1], a[2])
    \/ /\ Building /\ Len(handlers) \in 1..(MaxHandlers - 1)
       /\ \E fn \in ChainFns : Handle(Last, fn)
    \/ /\ Building /\ Len(handlers) \in 1..(MaxHandlers - 1)
       /\ \E a \in ReattachOutputArgs : Output(Last, a[1], a[2])
    \/ /\ Building /\ handlers # <<>>
       /\ \E input \in ReattachInputs : Execute(Last, input, <<>>)
    \/ \E i \in DOMAIN execs : InputParseResolves(i)
    \/ \E i \in DOMAIN execs : InputParseRejects(i, PlainError)
    \/ \E i \in DOMAIN execs : HandlerResolves(i)
    \/ \E i \in DOMAIN execs : HandlerRejects(i, PlainError)
    \/ \E i \in DOMAIN execs : OutputParseResolves(i)
    \/ \E i \in DOMAIN execs : OutputParseRejects(i, PlainError)

SpecReattach == Init /\ [][NextReattach]_vars

----------------------------------------------------------------------------
(* The framework adapters (adapters/express.ts, adapters/fastify.ts,        *)
(* adapters/hono.ts).  Each returns an async callback; a call of the        *)
(* callback starts handler.execute() and is suspended until it settles.     *)
(* The calls the callback makes on res / reply / c / next are recorded in   *)
(* order, with what the callback itself resolved or rejected with.          *)

\* isResponseObject(obj)
isResponseObject(obj) ==
    /\ obj.tag = "obj"
    /\ "status" \in DOMAIN obj.f
    /\ "body" \in DOMAIN obj.f
    /\ obj.f["status"].tag = "num"

\* the order in which Object.entries() lists the properties of the headers
HeaderOrder == <<"X-Custom-Header", "X-Request-Id">>

\* Object.entries(headers)
Entries(headers) ==
    LET keys == SelectSeq(HeaderOrder, LAMBDA k : k \in DOMAIN headers.f)
    IN  [i \in 1..Len(keys) |-> <<keys[i], headers.f[keys[i]]>>]

\* a call fn(...args) on the framework's objects
FrameworkCall(fn, args) == [fn |-> fn, args |-> args]

\* what c.json(...) returns
HonoResponse(args) == [tag |-> "response", args |-> args]

Platforms == {"express", "fastify", "hono"}

\* the requests the frameworks hand to the callback
Requests ==
    { [body |-> Prim("b1"), query |-> Prim("q1"), params |-> Prim("p1"),
       headers |-> Prim("h1")],
      [body |-> Obj([body |-> Prim("b2")]), query |-> Prim("q2"), params |-> Prim("p2"),
       headers |-> Prim("h2")] }

\* the input the callback builds from the request
AdapterInput(h, request) ==
    IF expectsMultiInput(handlers[h])
    THEN Obj([body |-> request.body, query |-> request.query,
              params |-> request.params, headers |-> request.headers])
    ELSE request.body

\* the initial context the callback passes to execute()
AdapterContext(platform) ==
    CASE platform = "express" -> [req |-> "req", res |-> "res"]
      [] platform = "fastify" -> [request |-> "request", reply |-> "reply"]
      [] platform = "hono"    -> [c |-> "c"]

\* the callback of the platform is called for handler h: up to its
\* `await handler.execute(input, context)`
CallbackCalled(platform, h, request) ==
    /\ h \in DOMAIN handlers
    /\ execs' = Append(execs, BeginExecute(h, AdapterInput(h, request),
                                           AdapterContext(platform)))
    /\ responses' = Append(responses,
          [platform |-> platform, exec |-> Len(execs) + 1, pc |-> "await_execute",
           calls |-> <<>>, value |-> Undefined])
    /\ UNCHANGED <<handlers, arrays, lastCall, globalConfig, nodeEnv, registeredAdapters,
                   instanceOverrides, detected, configCopies>>

\* a callback that has settled: what it called, and what it returned
\* (pc "resolved") or rejected with (pc "rejected")
Done(r, pc, calls, value) == [r EXCEPT !.pc = pc, !.calls = calls, !.value = value]

\* toExpress answering with status 500 itself before it calls next(error)
toExpressWritesError(j) ==
    /\ j \in DOMAIN responses
    /\ responses[j].platform = "express"
    /\ responses[j].pc = "await_execute"
    /\ LET e == execs[responses[j].exec]
           result == e.result
       IN  /\ e.pc \in {"resolved", "rejected"}
           /\ responses' = [responses EXCEPT ![j] =
                 IF e.pc = "rejected"
                 THEN Done(@, "resolved",
                           <<FrameworkCall("res.status", <<Num(500)>>),
                             FrameworkCall("res.json", <<result>>),
                             FrameworkCall("next", <<result>>)>>,
                           Undefined)
                 ELSE Done(@, "resolved", <<FrameworkCall("res.json", <<result>>)>>,
                           Undefined)]
    /\ UNCHANGED <<handlers, arrays, lastCall, globalConfig, nodeEnv, registeredAdapters,
                   execs, instanceOverrides, detected, configCopies>>

\* toExpress: the rest of the callback once execute() has settled
toExpress(j) ==
    /\ j \in DOMAIN responses
    /\ responses[j].platform = "express"
    /\ responses[j].pc = "await_execute"
    /\ LET e == execs[responses[j].exec]
           result == e.result
       IN  /\ e.pc \in {"resolved", "rejected"}
           /\ responses' = [responses EXCEPT ![j] =
                 IF e.pc = "rejected"
                 THEN Done(@, "resolved", <<FrameworkCall("next", <<result>>)>>, Undefined)
                 ELSE IF isResponseObject(result)
                      THEN Done(@, "resolved",
                                (IF "headers" \in DOMAIN result.f
                                 THEN [i \in 1..Len(Entries(result.f["headers"])) |->
                                          FrameworkCall("res.set",
                                                        Entries(result.f["headers"])[i])]
                                 ELSE <<>>)
                                \o <<FrameworkCall("res.status", <<result.f["status"]>>),
                                     FrameworkCall("res.json", <<result.f["body"]>>)>>,
                                Undefined)
                      ELSE Done(@, "resolved", <<FrameworkCall("res.json", <<result>>)>>,
                                Undefined)]
    /\ UNCHANGED <<handlers, arrays, lastCall, globalConfig, nodeEnv, registeredAdapters,
                   execs, instanceOverrides, detected, configCopies>>

\* toFastify: the rest of the callback once execute() has settled
toFastify(j) ==
    /\ j \in DOMAIN responses
    /\ responses[j].platform = "fastify"
    /\ responses[j].pc = "await_execute"
    /\ LET e == execs[responses[j].exec]
           result == e.result
       IN  /\ e.pc \in {"resolved", "rejected"}
           /\ responses' = [responses EXCEPT ![j] =
                 IF e.pc = "rejected"
                 THEN Done(@, "rejected", <<>>, result)
                 ELSE IF isResponseObject(result)
                      THEN Done(@, "resolved",
                                <<FrameworkCall("reply.status", <<result.f["status"]>>),
                                  FrameworkCall("reply.send", <<result.f["body"]>>)>>,
                                Prim("reply"))
                      ELSE Done(@, "resolved", <<>>, result)]
    /\ UNCHANGED <<handlers, arrays, lastCall, globalConfig, nodeEnv, registeredAdapters,
                   execs, instanceOverrides, detected, configCopies>>

\* toHono: the rest of the callback once execute() has settled
toHono(j) ==
    /\ j \in DOMAIN responses
    /\ responses[j].platform = "hono"
    /\ responses[j].pc = "await_execute"
    /\ LET e == execs[responses[j].exec]
           result == e.result
       IN  /\ e.pc \in {"resolved", "rejected"}
           /\ responses' = [responses EXCEPT ![j] =
                 IF e.pc = "rejected"
                 THEN Done(@, "rejected", <<>>, result)
                 ELSE IF isResponseObject(result)
                      THEN Done(@, "resolved",
                                <<FrameworkCall("c.json",
                                                <<result.f["body"], result.f["status"]>>)>>,
                                HonoResponse(<<result.f["body"], result.f["status"]>>))
                      ELSE Done(@, "resolved", <<FrameworkCall("c.json", <<result>>)>>,
                                HonoResponse(<<result>>))]
    /\ UNCHANGED <<handlers, arrays, lastCall, globalConfig, nodeEnv, registeredAdapters,
                   execs, instanceOverrides, detected, configCopies>>

\* the handler functions of the adapter specification
AdapterFns == {"f1", "fEnvelope", "fNoHeaders", "fStringStatus"}

NextAdapters ==
    \/ /\ handlers = <<>>
       /\ Factory(<<>>)
    \/ /\ Building /\ Rank(lastCall.method) = 1
       /\ \E schema \in {"Z", "MBQ"} : Input(Last, schema, "")
    \/ /\ Building /\ Rank(lastCall.method) \in 1..2
       /\ \E fn \in AdapterFns : Handle(Last, fn)
    \/ /\ Building /\ handlers # <<>>
       /\ \E platform \in Platforms, request \in Requests :
             CallbackCalled(platform, Last, request)
    \/ \E i \in DOMAIN execs : InputParseResolves(i)
    \/ \E i \in DOMAIN execs : InputParseRejects(i, PlainError)
    \/ \E i \in DOMAIN execs : HandlerResolves(i)
    \/ \E i \in DOMAIN execs, error \in {PlainError, ThrownString} : HandlerRejects(i, error)
    \/ \E j \in DOMAIN responses : toExpress(j)
    \/ \E j \in DOMAIN responses : toFastify(j)
    \/ \E j \in DOMAIN responses : toHono(j)

SpecAdapters == Init /\ [][NextAdapters]_vars

----------------------------------------------------------------------------
(* The logging specification: one fluent chain whose stages are each        *)
(* optional, on a handler created with or without a logger of its own,      *)
(* while configure() and resetConfig() are called at any moment; then one   *)
(* execute() in which every stage may fail.                                 *)

\* arguments of handler(config)
LogOverrides == { <<>>, [logger |-> "instanceLogger"] }

\* arguments of configure(config)
LogConfigArgs == { [logger |-> "customLogger"], [validateInput |-> FALSE] }

NextLog ==
    \/ \E config \in LogConfigArgs :
          /\ Spread(globalConfig, config) # globalConfig
          /\ configure(config)
    \/ /\ globalConfig # defaultConfig
       /\ resetConfig
    \/ /\ Building /\ Rank(lastCall.method) < 1
       /\ \E config \in LogOverrides : Factory(config)
    \/ /\ Building /\ Rank(lastCall.method) = 1
       /\ \E schema \in {"Z", "MBQ"} : Input(Last, schema, "")
    \/ /\ Building /\ Rank(lastCall.method) \in 1..2
       /\ Use(Last, "m1")
    \/ /\ Building /\ Rank(lastCall.method) \in 1..3
       /\ Handle(Last, "f1")
    \/ /\ Building /\ Rank(lastCall.method) \in 1..4
       /\ Output(Last, "Z", "")
    \/ /\ Building /\ handlers # <<>>
       /\ Execute(Last, Obj([body |-> Prim("b1")]), <<>>)
    \/ \E i \in DOMAIN execs : InputParseResolves(i)
    \/ \E i \in DOMAIN execs, error \in ParseThrows : InputParseRejects(i, error)
    \/ \E i \in DOMAIN execs : MiddlewareResolves(i)
    \/ \E i \in DOMAIN execs, error \in UserThrows : MiddlewareRejects(i, error)
    \/ \E i \in DOMAIN execs : HandlerResolves(i)
    \/ \E i \in DOMAIN execs, error \in UserThrows : HandlerRejects(i, error)
    \/ \E i \in DOMAIN execs : OutputParseResolves(i)
    \/ \E i \in DOMAIN execs, error \in ParseThrows : OutputParseRejects(i, error)

SpecLog == Init /\ [][NextLog]_vars

----------------------------------------------------------------------------
(* The multi-input specification: one handler with a multi-input schema,    *)
(* one execute() on a request that has all four parts, each parse resolving *)
(* or failing.                                                              *)

\* arguments of input(schema, adapter)
PartsInputArgs ==
    { <<"MBQ", "">>, <<"MQH", "">>, <<"MHPB", "">>, <<"MBQ", "X">>, <<"MHPB", "X">> }

\* arguments of execute(input): every part has a value of its own
PartsInputs ==
    { Obj([body |-> Prim("b1"), query |-> Prim("q1"), params |-> Prim("p1"),
           headers |-> Prim("h1")]),
      Obj([body |-> Prim("b2"), query |-> Prim("q2"), params |-> Prim("p2"),
           headers |-> Prim("h2")]) }

NextParts ==
    \/ /\ handlers = <<>> /\ registeredAdapters = <<>>
       /\ registerAdapter("C")
    \/ /\ handlers = <<>>
       /\ Factory(<<>>)
    \/ /\ Building /\ Rank(lastCall.method) = 1
       /\ \E a \in PartsInputArgs : Input(Last, a[1], a[2])
    \/ /\ Building /\ Rank(lastCall.method) = 2
       /\ Handle(Last, "f1")
    \/ /\ Building /\ Rank(lastCall.method) = 4
       /\ \E input \in PartsInputs : Execute(Last, input, <<>>)
    \/ \E i \in DOMAIN execs : InputParseResolves(i)
    \/ \E i \in DOMAIN execs, error \in ParseThrows : InputParseRejects(i, error)
    \/ \E i \in DOMAIN execs : HandlerResolves(i)
    \/ \E i \in DOMAIN execs : HandlerRejects(i, PlainError)

SpecParts == Init /\ [][NextParts]_vars

----------------------------------------------------------------------------
(* The progress specification: one fluent chain, then execute() calls on    *)
(* the instance it returned, started at any moment while the registry and   *)
(* the global configuration are changed at any moment.  Every function      *)
(* execute() awaits (an adapter's parse, a middleware, the handler          *)
(* function) eventually returns or throws: weak fairness on the settling    *)
(* of each call's pending await.  Nothing is assumed of the callers, the    *)
(* registry or the configuration.  The chain declares no output schema, so  *)
(* that validateOutput returns within the step that ends the handler.       *)

\* the pending await of the i-th execute() settles, one way or the other
Settles(i) ==
    \/ InputParseResolves(i)
    \/ InputParseRejects(i, PlainError)
    \/ MiddlewareResolves(i)
    \/ MiddlewareRejects(i, PlainError)
    \/ HandlerResolves(i)
    \/ HandlerRejects(i, PlainError)
    \/ OutputParseResolves(i)
    \/ OutputParseRejects(i, PlainError)

NextLive ==
    \/ /\ Building /\ Rank(lastCall.method) < 1
       /\ Factory(<<>>)
    \/ /\ Building /\ Rank(lastCall.method) = 1
       /\ Input(Last, "Z", "")
    \/ /\ Building /\ Rank(lastCall.method) = 2
       /\ Use(Last, "m1")
    \/ /\ Building /\ Rank(lastCall.method) = 3
       /\ Handle(Last, "f1")
    \/ /\ Rank(lastCall.method) = 4 /\ registeredAdapters = <<>>
       /\ registerAdapter("C")
    \/ /\ Rank(lastCall.method) = 4 /\ registeredAdapters # <<>>
       /\ clearAdapters
    \/ /\ Rank(lastCall.method) = 4 /\ globalConfig.validateInput
       /\ configure([validateInput |-> FALSE])
    \/ /\ Rank(lastCall.method) = 4 /\ globalConfig # defaultConfig
       /\ resetConfig
    \/ /\ Rank(lastCall.method) = 4 /\ lastCall.returned = Last
       /\ Len(execs) < MaxExecs
       /\ Execute(Last, Prim("raw"), <<>>)
    \/ \E i \in DOMAIN execs : InputParseResolves(i)
    \/ \E i \in DOMAIN execs : InputParseRejects(i, PlainError)
    \/ \E i \in DOMAIN execs : MiddlewareResolves(i)
    \/ \E i \in DOMAIN execs : MiddlewareRejects(i, PlainError)
    \/ \E i \in DOMAIN execs : HandlerResolves(i)
    \/ \E i \in DOMAIN execs : HandlerRejects(i, PlainError)

SpecLive ==
    /\ Init
    /\ [][NextLive]_vars
    /\ \A i \in 1..MaxExecs : WF_vars(Settles(i))


----------------------------------------------------------------------------
(* Reading a call's trace.                                                  *)

\* positions of the trace's events of one kind
At(e, ev) == { p \in DOMAIN e.trace : e.trace[p].ev = ev }

AtStage(e, ev, stage) == { p \in At(e, ev) : e.trace[p].stage = stage }

StageRank(stage) ==
    CASE stage = "input"      -> 1
      [] stage = "middleware" -> 2
      [] stage = "handler"    -> 3
      [] stage = "transform"  -> 4
      [] stage = "output"     -> 5
      [] OTHER                -> 6

\* the fragment the j-th middleware of the call returned
FragmentOf(e, j) ==
    e.trace[CHOOSE p \in AtStage(e, "settle", "middleware") : e.trace[p].idx = j].data.f

\* the last middleware among 1..n whose fragment has the key, 0 if none has
LastWith(e, n, key) ==
    LET having == { j \in 1..n : key \in DOMAIN FragmentOf(e, j) }
    IN  IF having = {} THEN 0 ELSE CHOOSE j \in having : \A k \in having : k <= j

\* the shallow merge of the initial context and the fragments of middlewares
\* 1..n, key by key: the last fragment that has the key gives its value
MergedUpTo(e, n) ==
    [key \in (DOMAIN e.initialContext) \cup UNION { DOMAIN FragmentOf(e, j) : j \in 1..n } |->
        IF LastWith(e, n, key) = 0
        THEN e.initialContext[key]
        ELSE FragmentOf(e, LastWith(e, n, key))[key]]

----------------------------------------------------------------------------
(* C1: in every execute() call the calls to adapters and user code come in  *)
(* the order input validation, middlewares, handler function, transform,    *)
(* output validation; a later call is made only after the earlier one has   *)
(* settled; no call is made twice; input and output validation are called   *)
(* only when their flag is on; and a call that resolves has run every       *)
(* middleware and the handler function.                                     *)
C1_FixedStageOrder ==
    \A i \in DOMAIN execs :
        LET e == execs[i]
            t == e.trace
            h == handlers[e.h]
        IN  /\ \A p, q \in At(e, "call") :
                  p < q =>
                      /\ StageRank(t[p].stage) <= StageRank(t[q].stage)
                      /\ t[p].stage = t[q].stage => t[p].idx < t[q].idx
                      /\ \E r \in (p + 1)..(q - 1) :
                            /\ t[r].ev = "settle"
                            /\ t[r].stage = t[p].stage
                            /\ t[r].idx = t[p].idx
            /\ AtStage(e, "call", "input") # {} => h.config.validateInput
            /\ AtStage(e, "call", "output") # {} => h.config.validateOutput
            /\ e.pc = "resolved" =>
                  /\ { t[p].idx : p \in AtStage(e, "call", "middleware") }
                        = 1..Len(arrays[h.middlewares])
                  /\ Cardinality(AtStage(e, "call", "handler")) = 1

\* C1 witness: a call that went through input validation, two middlewares,
\* the handler function and output validation, and resolved
C1_Witness ==
    \E i \in DOMAIN execs :
        /\ execs[i].pc = "resolved"
        /\ AtStage(execs[i], "call", "input") # {}
        /\ Cardinality(AtStage(execs[i], "call", "middleware")) = 2
        /\ AtStage(execs[i], "call", "output") # {}

(* C2: a transform(fn) call returns a handler with fn attached, whose       *)
(* execute() then calls fn once, after the handler function and before      *)
(* output validation.  Stated on the builder call: it returns an instance.  *)
C2_TransformAttaches ==
    lastCall.method = "transform" => lastCall.returned \in DOMAIN handlers

(* C3: every builder call (input, use, handle, output, transform) returns   *)
(* a new instance, distinct from its receiver and from every instance that  *)
(* existed, leaves every field of every existing instance (and the contents *)
(* of its middleware list) as it was, and the returned instance differs     *)
(* from the receiver in no field but the one the method sets.               *)
C3_ChainReturnsNewInstance ==
    [][ lastCall'.method \in {"input", "use", "handle", "output", "transform"}
        /\ lastCall' # lastCall
        => /\ lastCall'.returned \in (DOMAIN handlers') \ (DOMAIN handlers)
           /\ \A g \in DOMAIN handlers :
                 /\ handlers'[g] = handlers[g]
                 /\ arrays'[handlers'[g].middlewares] = arrays[handlers[g].middlewares]
           /\ LET old == handlers[lastCall'.receiver]
                  new == handlers'[lastCall'.returned]
                  m == lastCall'.method
              IN  /\ m # "input" => new.inputValidator = old.inputValidator
                  /\ m # "output" => new.outputValidator = old.outputValidator
                  /\ m # "handle" => new.handlerFn = old.handlerFn
                  /\ new.config = old.config
                  /\ m # "use" => arrays'[new.middlewares] = arrays[old.middlewares]
                  /\ m = "use" => arrays'[new.middlewares]
                                     = Append(arrays[old.middlewares], lastCall'.arg)
      ]_vars

(* C4: no two instances share a middleware list, a builder call leaves the  *)
(* middleware list of every existing instance as it was, and use(m) on r    *)
(* returns an instance whose list is r's list followed by m.                *)
C4_NoSharedMiddlewares ==
    [][ /\ \A g \in DOMAIN handlers :
              arrays'[handlers'[g].middlewares] = arrays[handlers[g].middlewares]
        /\ \A g, k \in DOMAIN handlers' :
              g # k => handlers'[g].middlewares # handlers'[k].middlewares
        /\ lastCall'.method = "use" /\ Len(handlers') > Len(handlers)
              => arrays'[handlers'[lastCall'.returned].middlewares]
                    = Append(arrays[handlers[lastCall'.receiver].middlewares], lastCall'.arg)
      ]_vars

\* C4 witness: base, base.use(m1) and base.use(m2), each with its own list
C4_Witness ==
    /\ Len(handlers) = 3
    /\ lastCall = Call("use", 1, "m2", 3)
    /\ arrays[handlers[1].middlewares] = <<>>
    /\ arrays[handlers[2].middlewares] = <<"m1">>
    /\ arrays[handlers[3].middlewares] = <<"m2">>

(* C5: middlewares are called one at a time in registration order: the      *)
(* k-th call is for the k-th registered middleware, the event just before   *)
(* it is the (k-1)-th middleware resolving, and its context has every key   *)
(* of the fragments of middlewares 1..k-1, with the value of the last of    *)
(* them that has the key.                                                   *)
C5_SequentialMiddlewares ==
    \A i \in DOMAIN execs :
        LET e == execs[i]
            t == e.trace
        IN  \A p \in AtStage(e, "call", "middleware") :
                LET k == t[p].idx
                IN  /\ k \in 1..Len(arrays[handlers[e.h].middlewares])
                    /\ t[p].who = arrays[handlers[e.h].middlewares][k]
                    /\ \A q \in AtStage(e, "call", "middleware") : q < p => t[q].idx < k
                    /\ k > 1 =>
                          /\ t[p - 1].ev = "settle"
                          /\ t[p - 1].stage = "middleware"
                          /\ t[p - 1].idx = k - 1
                          /\ t[p - 1].data.tag = "obj"
                    /\ \A j \in 1..(k - 1) :
                          \A key \in DOMAIN FragmentOf(e, j) :
                              /\ key \in DOMAIN t[p].context
                              /\ t[p].context[key] = FragmentOf(e, LastWith(e, k - 1, key))[key]

\* C5 witness: the second middleware has been called, with the first one's fragment
C5_Witness ==
    \E i \in DOMAIN execs :
        \E p \in AtStage(execs[i], "call", "middleware") :
            /\ execs[i].trace[p].idx = 2
            /\ execs[i].trace[p].who = "m2"
            /\ execs[i].trace[p].context = [a |-> "1", b |-> "1", c |-> "0"]

(* C6: the context the handler function is called with is the shallow merge *)
(* of the initial context and the fragments of all the middlewares in       *)
(* registration order, a later fragment's key overriding the same key of    *)
(* the initial context and of the earlier fragments.                        *)
C6_HandlerContextIsMerge ==
    \A i \in DOMAIN execs :
        LET e == execs[i]
        IN  \A p \in AtStage(e, "call", "handler") :
                e.trace[p].context = MergedUpTo(e, Len(arrays[handlers[e.h].middlewares]))

\* C6 witness: m1 overrides the initial a, m2 overrides m1's b, c is kept
C6_Witness ==
    \E i \in DOMAIN execs :
        \E p \in AtStage(execs[i], "call", "handler") :
            /\ execs[i].initialContext = [a |-> "0", c |-> "0"]
            /\ arrays[handlers[execs[i].h].middlewares] = <<"m1", "m2">>
            /\ execs[i].trace[p].context = [a |-> "1", b |-> "2", c |-> "0"]

C8_InputGate ==
    \A i \in DOMAIN execs :
        LET e == execs[i]
            t == e.trace
        IN  /\ ~handlers[e.h].config.validateInput =>
                  /\ \A p \in DOMAIN t : t[p].stage # "input"
                  /\ \A p \in At(e, "call") :
                        t[p].stage \in {"middleware", "handler"} => t[p].data = e.input
            /\ /\ handlers[e.h].config.validateInput
               /\ \E p \in AtStage(e, "settle", "input") : t[p].data.tag = "error"
               => /\ e.pc = "rejected"
                  /\ e.result.tag = "error"
                  /\ e.result.class = "ValidationError"

\* C8 witness: validateInput is false, a schema with a matching adapter is
\* attached, and the call resolved after a middleware and the handler function
C8_Witness ==
    \E i \in DOMAIN execs :
        LET h == handlers[execs[i].h]
        IN  /\ ~h.config.validateInput
            /\ h.inputValidator.present
            /\ h.inputValidator.schema = "Z"
            /\ Len(arrays[h.middlewares]) > 0
            /\ execs[i].pc = "resolved"

(* C9: the output validator's parse is called only if validateOutput is     *)
(* true, an output validator is attached and an adapter is resolved for it, *)
(* and it is called whenever these hold and the handler function has        *)
(* resolved; with validateOutput false a call that resolves returns the     *)
(* handler function's output as it was; a parse of the output that fails    *)
(* makes execute() reject with a ValidationError.                           *)
C9_OutputGate ==
    \A i \in DOMAIN execs :
        LET e == execs[i]
            t == e.trace
            h == handlers[e.h]
            ov == h.outputValidator
            gated == /\ h.config.validateOutput
                     /\ ov.present
                     /\ (ov.adapter # "" \/ detectValidator(ov.schema) # "")
            produced == { p \in AtStage(e, "settle", "handler") : t[p].data.tag = "out" }
        IN  /\ AtStage(e, "call", "output") # {} => gated
            /\ gated /\ produced # {} => AtStage(e, "call", "output") # {}
            /\ ~h.config.validateOutput /\ e.pc = "resolved" =>
                  \E p \in produced : e.result = t[p].data
            /\ (\E p \in AtStage(e, "settle", "output") : t[p].data.tag = "error") =>
                  /\ e.pc = "rejected"
                  /\ e.result.tag = "error"
                  /\ e.result.class = "ValidationError"

\* C9 witness: validateOutput is false, an output schema with a matching
\* adapter is attached, and the call resolved
C9_Witness ==
    \E i \in DOMAIN execs :
        LET h == handlers[execs[i].h]
        IN  /\ ~h.config.validateOutput
            /\ h.outputValidator.present
            /\ h.outputValidator.schema = "Z"
            /\ execs[i].pc = "resolved"

C11_MultiInputParts ==
    \A i \in DOMAIN execs :
        LET e == execs[i]
            h == handlers[e.h]
            iv == h.inputValidator
            t == e.trace
            declared == {ReservedKeys[k] : k \in DOMAIN ReservedKeys} \cap InKeys(iv.schema)
        IN  (iv.present /\ iv.isMultiInput /\ h.config.validateInput) =>
               \A p \in At(e, "call") :
                  t[p].stage \in {"middleware", "handler"} =>
                     /\ t[p].data.tag = "obj"
                     /\ DOMAIN t[p].data.f = declared
                     /\ \A key \in declared :
                           LET partSchema == PartSchema(iv.schema, key)
                               adapter == IF iv.adapter # "" THEN iv.adapter
                                          ELSE detectValidator(partSchema)
                               raw == IF e.input.tag = "obj" /\ key \in DOMAIN e.input.f
                                      THEN e.input.f[key]
                                      ELSE Undefined
                           IN  t[p].data.f[key] =
                                  IF adapter # ""
                                  THEN Parsed(adapter, partSchema, raw)
                                  ELSE raw

\* C11 witness: a handler declaring body and query ran its handler function
\* on a raw input that also carries params and an undeclared key
C11_Witness ==
    \E i \in DOMAIN execs :
        LET e == execs[i]
            h == handlers[e.h]
        IN  /\ h.inputValidator.schema = "MBQ"
            /\ h.config.validateInput
            /\ e.input.tag = "obj"
            /\ {"params", "extra"} \subseteq DOMAIN e.input.f
            /\ e.pc = "resolved"
            /\ \E p \in AtStage(e, "call", "handler") :
                  DOMAIN e.trace[p].data.f = {"body", "query"}

C14_DetectionOrder ==
    [][ /\ detected' # detected =>
              LET s == detected'.schema
                  a == detected'.adapter
                  reg == registeredAdapters
                  hitsReg == {i \in DOMAIN reg : Detect(reg[i], s)}
                  hitsBuiltIn == {i \in 1..3 : Detect(<<"zod", "joi", "yup">>[i], s)}
              IN  /\ hitsReg # {} =>
                        \E i \in hitsReg : a = reg[i] /\ \A j \in hitsReg : i <= j
                  /\ hitsReg = {} /\ hitsBuiltIn # {} =>
                        \E i \in hitsBuiltIn :
                            a = <<"zod", "joi", "yup">>[i] /\ \A j \in hitsBuiltIn : i <= j
                  /\ hitsReg = {} /\ hitsBuiltIn = {} => a = ""
                  /\ reg = <<>> =>
                        a = CASE s \in {"Z", "ZY"} -> "zod"
                              [] s = "J" -> "joi"
                              [] s = "Y" -> "yup"
                              [] OTHER -> ""
        /\ Len(registeredAdapters') < Len(registeredAdapters) => registeredAdapters' = <<>>
      ]_vars

\* C14 witness: with an adapter without detect registered before one that
\* accepts everything, a zod schema was detected as the registered one
C14_Witness ==
    /\ registeredAdapters = <<"X", "C">>
    /\ detected = [schema |-> "Z", adapter |-> "C"]

(* C13: expectsMultiInput() of a handler instance returns the boolean       *)
(* computed when input(schema) produced it, never changes afterwards over   *)
(* any chain call made on the instance, any execute() call and any change   *)
(* of the registry or of the global configuration, is inherited by the      *)
(* instances that use, handle, output and input() without a schema return,  *)
(* and is false when no input schema has been attached.                     *)
C13_ExpectsMultiInputStable ==
    [][ /\ \A n \in DOMAIN handlers :
              /\ n \in DOMAIN handlers'
              /\ expectsMultiInput(handlers'[n]) = expectsMultiInput(handlers[n])
        /\ \A n \in (DOMAIN handlers') \ (DOMAIN handlers) :
              expectsMultiInput(handlers'[n]) =
                 CASE lastCall'.method = "handler" -> FALSE
                   [] lastCall'.method = "input" /\ lastCall'.arg # "U" ->
                         lastCall'.arg \in {"MBQ", "MQH"}
                   [] OTHER -> expectsMultiInput(handlers[lastCall'.receiver])
      ]_vars

\* C13 witness: a multi-input handler went through handle and output, the
\* registry and the global configuration changed, and an execute() call on
\* the last instance resolved; every instance after input() is multi-input
C13_Witness ==
    /\ Len(handlers) = 4
    /\ ~expectsMultiInput(handlers[1])
    /\ \A n \in 2..4 : expectsMultiInput(handlers[n])
    /\ lastCall.method = "output"
    /\ registeredAdapters = <<"C">>
    /\ globalConfig = [validateInput |-> FALSE, validateOutput |-> FALSE,
                       logger |-> "noopLogger"]
    /\ Len(execs) = 1
    /\ execs[1].pc = "resolved"

(* C15: when an adapter is passed to input(schema, adapter) or              *)
(* output(schema, adapter), that adapter does the parsing and detection is  *)
(* never consulted for that schema, whatever the built-in and registered    *)
(* adapters would accept; for a multi-input handler it parses every         *)
(* declared part, with that part's sub-schema and that part's data.         *)
C15_ExplicitAdapterUsed ==
    \A i \in DOMAIN execs :
        LET e == execs[i]
            h == handlers[e.h]
            iv == h.inputValidator
            ov == h.outputValidator
            t == e.trace
            declared == {k \in DOMAIN ReservedKeys : ReservedKeys[k] \in InKeys(iv.schema)}
            raw(k) == IF e.input.tag = "obj" /\ ReservedKeys[k] \in DOMAIN e.input.f
                      THEN e.input.f[ReservedKeys[k]]
                      ELSE Undefined
        IN  /\ (iv.present /\ iv.adapter # "") =>
                  /\ AtStage(e, "detect", "input") = {}
                  /\ \A p \in AtStage(e, "call", "input") :
                        /\ t[p].who = iv.adapter
                        /\ ~iv.isMultiInput => t[p].data = e.input
                        /\ iv.isMultiInput =>
                              t[p].idx \in declared /\ t[p].data = raw(t[p].idx)
                  /\ \A p \in AtStage(e, "settle", "input") :
                        t[p].data.tag # "error" =>
                           t[p].data =
                              IF iv.isMultiInput
                              THEN Parsed(iv.adapter,
                                          PartSchema(iv.schema, ReservedKeys[t[p].idx]),
                                          raw(t[p].idx))
                              ELSE Parsed(iv.adapter, iv.schema, e.input)
                  /\ (h.config.validateInput /\ AtStage(e, "call", "handler") # {}) =>
                        IF iv.isMultiInput
                        THEN \A k \in declared :
                                \E p \in AtStage(e, "call", "input") : t[p].idx = k
                        ELSE AtStage(e, "call", "input") # {}
            /\ (ov.present /\ ov.adapter # "") =>
                  /\ AtStage(e, "detect", "output") = {}
                  /\ \A p \in AtStage(e, "call", "output") :
                        t[p].who = ov.adapter /\ t[p].data = e.output
                  /\ (h.config.validateOutput /\ e.pc = "resolved") =>
                        /\ AtStage(e, "call", "output") # {}
                        /\ e.result = Parsed(ov.adapter, ov.schema, e.output)

\* C15 witness: with an adapter that accepts everything registered, a call
\* resolved on a handler whose {body, query} input schema and zod output
\* schema were both attached with the explicit adapter
C15_Witness ==
    \E i \in DOMAIN execs :
        LET e == execs[i]
            h == handlers[e.h]
        IN  /\ registeredAdapters = <<"C">>
            /\ h.inputValidator.schema = "MBQ"
            /\ h.inputValidator.adapter = "X"
            /\ h.outputValidator.schema = "Z"
            /\ h.outputValidator.adapter = "X"
            /\ h.config.validateInput /\ h.config.validateOutput
            /\ e.input.tag = "obj"
            /\ e.pc = "resolved"

(* C16: when no adapter can be resolved for an input schema, for a part of  *)
(* a multi-input schema or for an output schema, execute() does not reject  *)
(* on that account: no parse is called for it and the data goes on          *)
(* unchanged, the raw input (or raw part) to the middlewares and the        *)
(* handler function, the handler function's output to the caller.           *)
C16_NoAdapterPassThrough ==
    \A i \in DOMAIN execs :
        LET e == execs[i]
            h == handlers[e.h]
            iv == h.inputValidator
            ov == h.outputValidator
            t == e.trace
            none(explicit, schema) == explicit = "" /\ detectValidator(schema) = ""
            passed == {p \in At(e, "call") : t[p].stage \in {"middleware", "handler"}}
        IN  /\ (iv.present /\ ~iv.isMultiInput /\ none(iv.adapter, iv.schema)) =>
                  /\ AtStage(e, "call", "input") = {}
                  /\ h.handlerFn # "" => passed # {}
                  /\ \A p \in passed : t[p].data = e.input
            /\ (iv.present /\ iv.isMultiInput /\ h.config.validateInput) =>
                  \A k \in DOMAIN ReservedKeys :
                     (/\ ReservedKeys[k] \in InKeys(iv.schema)
                      /\ none(iv.adapter, PartSchema(iv.schema, ReservedKeys[k]))) =>
                        /\ \A p \in AtStage(e, "call", "input") : t[p].idx # k
                        /\ \A p \in passed :
                              t[p].data.f[ReservedKeys[k]] =
                                 IF e.input.tag = "obj" /\ ReservedKeys[k] \in DOMAIN e.input.f
                                 THEN e.input.f[ReservedKeys[k]]
                                 ELSE Undefined
            /\ (ov.present /\ none(ov.adapter, ov.schema)) =>
                  /\ AtStage(e, "call", "output") = {}
                  /\ \A p \in AtStage(e, "settle", "handler") :
                        t[p].data.tag # "error" =>
                           e.pc = "resolved" /\ e.result = t[p].data
            /\ ( /\ e.pc = "rejected"
                 /\ iv.present => (iv.adapter = "" /\ \A k \in DOMAIN ReservedKeys :
                        detectValidator(IF iv.isMultiInput
                                        THEN PartSchema(iv.schema, ReservedKeys[k])
                                        ELSE iv.schema) = "")
                 /\ ov.present => none(ov.adapter, ov.schema) ) =>
                  \/ h.handlerFn = ""
                  \/ \E p \in At(e, "settle") :
                        /\ t[p].stage \in {"middleware", "handler"}
                        /\ t[p].data = e.result

\* C16 witness: with validation enabled and an empty registry, a call
\* resolved with the handler function's own output on a handler whose input
\* and output schemas are matched by no adapter
C16_Witness ==
    \E i \in DOMAIN execs :
        LET e == execs[i]
            h == handlers[e.h]
        IN  /\ registeredAdapters = <<>>
            /\ h.inputValidator.schema = "P" /\ h.inputValidator.adapter = ""
            /\ h.outputValidator.schema = "P" /\ h.outputValidator.adapter = ""
            /\ h.config.validateInput /\ h.config.validateOutput
            /\ e.pc = "resolved"
            /\ e.result = HandlerOutput(h.handlerFn, e.input, e.context)

(* C17: a stage that fails ends the call: after an input parse, a           *)
(* middleware, the handler function or an output parse has thrown or        *)
(* rejected, no later middleware, handler function, transform or parse is   *)
(* called, and execute() is rejected; a call that resolved had no failed    *)
(* stage.                                                                   *)
C17_FailureAborts ==
    \A i \in DOMAIN execs :
        LET e == execs[i]
            t == e.trace
            failed == {p \in At(e, "settle") : t[p].data.tag = "error"}
        IN  /\ \A p \in failed :
                  /\ \A q \in At(e, "call") \cup At(e, "settle") \cup At(e, "detect") : q <= p
                  /\ e.pc = "rejected"
                  /\ e.result.tag = "error"
            /\ e.pc = "resolved" => failed = {}
            /\ \A p \in At(e, "call") : t[p].stage # "transform"

\* C17 witness: one call whose first middleware threw with a second
\* middleware, a handler function and an output schema still to come
C17_Witness ==
    \E i \in DOMAIN execs :
        LET e == execs[i]
            h == handlers[e.h]
        IN  /\ Len(arrays[h.middlewares]) = 2
            /\ h.handlerFn # ""
            /\ h.outputValidator.present
            /\ e.pc = "rejected"
            /\ \E p \in AtStage(e, "settle", "middleware") :
                  e.trace[p].idx = 1 /\ e.trace[p].data = ThrownHandlerError

(* C18: an error thrown or rejected by a middleware, by the handler         *)
(* function or by the transform function is the value execute() rejects     *)
(* with, the identical value with every field as thrown, never wrapped in   *)
(* or converted to a ValidationError or anything else.  For the transform   *)
(* function this needs transform(fn) to return the handler that will call   *)
(* fn.                                                                      *)
C18_UserErrorsUnwrapped ==
    /\ \A i \in DOMAIN execs :
          LET e == execs[i]
              t == e.trace
          IN  \A p \in At(e, "settle") :
                 (t[p].stage \in {"middleware", "handler"} /\ t[p].data.tag = "error") =>
                    e.pc = "rejected" /\ e.result = t[p].data
    /\ lastCall.method = "transform" => lastCall.returned > lastCall.receiver

(* C19: the configuration of the handler that handler(config) returns is    *)
(* the global configuration of that moment with the keys of config laid     *)
(* over it, config winning key by key; a handler created with               *)
(* validateInput: true validates its input whatever the global              *)
(* validateInput is, and one created with validateInput: false does not.    *)
C19_OverrideWins ==
    [][ /\ (Len(handlers') > Len(handlers) /\ lastCall'.method = "handler") =>
              LET n == lastCall'.returned
                  o == instanceOverrides'[n]
              IN  \A k \in {"validateInput", "validateOutput", "logger"} :
                     handlers'[n].config[k] =
                        IF k \in DOMAIN o THEN o[k] ELSE globalConfig[k]
        /\ \A i \in DOMAIN execs' :
              LET e == execs'[i]
                  h == handlers'[e.h]
                  o == instanceOverrides'[e.h]
              IN  ("validateInput" \in DOMAIN o /\ h.inputValidator.present
                                                /\ h.handlerFn # "") =>
                     (o.validateInput <=> \E p \in DOMAIN e.trace : e.trace[p].stage = "input")
      ]_vars

\* C19 witness: configure() had switched validation off before
\* handler({validateInput: true}) was called, and a call on the handler built
\* from it was rejected by its input validation
C19_Witness ==
    \E i \in DOMAIN execs :
        LET e == execs[i]
        IN  /\ globalConfig = [validateInput |-> FALSE, validateOutput |-> FALSE,
                       logger |-> "noopLogger"]
            /\ instanceOverrides[e.h] = [validateInput |-> TRUE]
            /\ handlers[1].config = [validateInput |-> TRUE, validateOutput |-> FALSE,
                                  logger |-> "noopLogger"]
            /\ e.pc = "rejected"
            /\ e.result.class = "ValidationError"

(* C20, as stated: the flags that gate validation in execute() come from a  *)
(* merge of the global configuration and the instance overrides made when   *)
(* execute() is called, so that a configure() call after the handler was    *)
(* built changes whether it validates, for a flag it did not override.      *)
C20_FreshMergeAtExecute ==
    [][ Len(execs') > Len(execs) =>
           LET e == execs'[Len(execs')]
               h == handlers[e.h]
               o == instanceOverrides[e.h]
               validateInputNow == IF "validateInput" \in DOMAIN o
                                   THEN o.validateInput
                                   ELSE globalConfig.validateInput
           IN  (h.inputValidator.present /\ h.handlerFn # "") =>
                  (validateInputNow <=> \E p \in DOMAIN e.trace : e.trace[p].stage = "input")
      ]_vars

(* C20, amended: the flags that gate validation in execute() are those of   *)
(* the merge of the global configuration and the instance overrides made    *)
(* once, when handler(config) created the first instance of the chain;      *)
(* every instance of the chain carries them, and a configure() call made    *)
(* after that changes neither them nor whether the handler validates: the   *)
(* input is validated exactly if the handler's own validateInput is true,   *)
(* the output exactly if its own validateOutput is true.                    *)
C20_FlagsFixedAtCreation ==
    [][ /\ \A n \in DOMAIN handlers :
              n \in DOMAIN handlers' /\ handlers'[n].config = handlers[n].config
        /\ \A n \in (DOMAIN handlers') \ (DOMAIN handlers) :
              handlers'[n].config =
                 IF lastCall'.method = "handler"
                 THEN [k \in {"validateInput", "validateOutput", "logger"} |->
                         IF k \in DOMAIN instanceOverrides'[n]
                         THEN instanceOverrides'[n][k]
                         ELSE globalConfig[k]]
                 ELSE handlers[lastCall'.receiver].config
        /\ Len(execs') > Len(execs) =>
              LET e == execs'[Len(execs')]
                  h == handlers[e.h]
              IN  (h.inputValidator.present /\ h.handlerFn # "") =>
                     (h.config.validateInput <=>
                         \E p \in DOMAIN e.trace : e.trace[p].stage = "input")
        /\ \A i \in DOMAIN execs :
              LET h == handlers[execs[i].h]
              IN  ( /\ execs[i].pc = "await_handler"
                    /\ execs'[i].pc # "await_handler"
                    /\ execs'[i].pc # "rejected"
                    /\ h.outputValidator.present ) =>
                     (h.config.validateOutput <=>
                         \E p \in DOMAIN execs'[i].trace : execs'[i].trace[p].stage = "output")
      ]_vars

\* C20 witness: a handler created without overrides while validateInput was
\* true is validating the input of an execute() call, the global
\* validateInput having been set to false
C20_Witness ==
    \E i \in DOMAIN execs :
        LET e == execs[i]
            h == handlers[e.h]
        IN  /\ instanceOverrides[e.h] = <<>>
            /\ \A n \in DOMAIN handlers : handlers[n].config.validateInput
            /\ ~globalConfig.validateInput
            /\ h.inputValidator.present
            /\ e.pc = "await_input"

(* C21: getConfig() returns a copy: an assignment to a field of a returned  *)
(* object changes that object only, not the global configuration, so not    *)
(* what a later getConfig() returns nor the configuration of a handler      *)
(* created afterwards, and not another object getConfig() returned.         *)
C21_GetConfigReturnsCopy ==
    [][ /\ (\E j \in DOMAIN configCopies : configCopies'[j].config # configCopies[j].config) =>
              \A i \in DOMAIN configCopies, a \in FieldAssignments :
                 AssignField(i, a[1], a[2]) =>
                    /\ globalConfig' = globalConfig
                    /\ \A j \in DOMAIN configCopies :
                          j # i => configCopies'[j].config = configCopies[j].config
                    /\ configCopies'[i].config[a[1]] = a[2]
        /\ Len(configCopies') > Len(configCopies) =>
              configCopies'[Len(configCopies')].config = globalConfig
        /\ Len(handlers') > Len(handlers) =>
              \A k \in DOMAIN globalConfig :
                 handlers'[Len(handlers')].config[k] =
                    IF k \in DOMAIN instanceOverrides'[Len(handlers')]
                    THEN instanceOverrides'[Len(handlers')][k]
                    ELSE globalConfig[k]
      ]_vars

\* C21 witness: the test's case: an object obtained from getConfig() had its
\* validateInput set to false, and an object obtained after that and a
\* handler created after that have validateInput true
C21_Witness ==
    /\ Len(configCopies) = 2
    /\ ~configCopies[1].config.validateInput
    /\ configCopies[2].config.validateInput
    /\ globalConfig = defaultConfig
    /\ Len(handlers) = 1
    /\ instanceOverrides[1] = <<>>
    /\ handlers[1].config.validateInput

(* C22: a configure(config) call gives every key of config the value config *)
(* has for it and leaves every other key of the global configuration as it  *)
(* was; so after any sequence of calls each key holds the value of the last *)
(* call that mentioned it.                                                  *)
C22_ConfigureMerges ==
    [][ globalConfig' # globalConfig =>
           \A config \in ConfigArgs :
              configure(config) =>
                 /\ DOMAIN globalConfig' = DOMAIN globalConfig
                 /\ \A k \in DOMAIN globalConfig :
                       globalConfig'[k] =
                          IF k \in DOMAIN config THEN config[k] ELSE globalConfig[k]
      ]_vars

\* C22 witness: the configuration of the test with three calls,
\* validateInput true again and validateOutput false, reached in a run that
\* also installed a logger
C22_Witness ==
    /\ nodeEnv = "test"
    /\ globalConfig = [validateInput |-> TRUE, validateOutput |-> FALSE,
                       logger |-> "customLogger"]
    /\ \E i \in DOMAIN configCopies :
          configCopies[i].config = [validateInput |-> FALSE, validateOutput |-> FALSE,
                                    logger |-> "noopLogger"]

(* C23: a resetConfig() call leaves the global configuration equal to the   *)
(* hard-coded defaults: validateInput true, validateOutput true unless the  *)
(* runtime is "production", the no-op logger, whatever configure() calls    *)
(* and assignments to objects returned by getConfig() came before; a second *)
(* resetConfig() changes nothing.                                           *)
C23_ResetRestoresDefaults ==
    [][ resetConfig =>
           /\ globalConfig' = [validateInput |-> TRUE,
                               validateOutput |-> (nodeEnv # "production"),
                               logger |-> "noopLogger"]
           /\ globalConfig = [validateInput |-> TRUE,
                               validateOutput |-> (nodeEnv # "production"),
                               logger |-> "noopLogger"]
                 => globalConfig' = globalConfig
      ]_vars

\* C23 witness: the global configuration is the production default again
\* while an object obtained from getConfig() still shows the logger a
\* configure() call had installed and a validateInput set to false
C23_Witness ==
    /\ nodeEnv = "production"
    /\ globalConfig = [validateInput |-> TRUE, validateOutput |-> FALSE,
                       logger |-> "noopLogger"]
    /\ \E i \in DOMAIN configCopies :
          /\ configCopies[i].config.logger = "customLogger"
          /\ ~configCopies[i].config.validateInput
          /\ configCopies[i].config.validateOutput

(* C24: execute() calls in flight together on one handler are independent:  *)
(* whatever the interleaving of their awaits, every middleware and the      *)
(* handler function of a call get the validated input of that call and the  *)
(* context built from that call's initial context and that call's           *)
(* fragments, nothing of another call, and the call resolves with what it   *)
(* resolves with when run alone.                                            *)
C24_ConcurrentCallsIndependent ==
    \A i \in DOMAIN execs :
        LET e == execs[i]
            h == handlers[e.h]
            t == e.trace
            n == Len(arrays[h.middlewares])
            iv == h.inputValidator
            ov == h.outputValidator
            own == IF h.config.validateInput /\ iv.present /\ detectValidator(iv.schema) # ""
                   THEN Parsed(detectValidator(iv.schema), iv.schema, e.input)
                   ELSE e.input
            out == HandlerOutput(h.handlerFn, own, MergedUpTo(e, n))
        IN  /\ \A p \in AtStage(e, "call", "input") : t[p].data = e.input
            /\ \A p \in AtStage(e, "call", "middleware") :
                  /\ t[p].data = own
                  /\ t[p].context = MergedUpTo(e, t[p].idx - 1)
            /\ \A p \in AtStage(e, "call", "handler") :
                  /\ t[p].data = own
                  /\ t[p].context = MergedUpTo(e, n)
            /\ \A p \in AtStage(e, "call", "output") : t[p].data = out
            /\ e.pc = "resolved" =>
                  e.result =
                     IF h.config.validateOutput /\ ov.present /\ detectValidator(ov.schema) # ""
                     THEN Parsed(detectValidator(ov.schema), ov.schema, out)
                     ELSE out
            /\ \A p \in At(e, "call") :
                  \A key \in DOMAIN t[p].context :
                     \/ key \in DOMAIN e.initialContext
                     \/ \E j \in 1..n : key \in DOMAIN MiddlewareResult(arrays[h.middlewares][j])

\* C24 witness: two calls with different inputs and initial contexts are in
\* flight on one handler with two middlewares, the first waiting for the
\* handler function, the second for its first middleware
C24_Witness ==
    /\ Len(execs) = 2
    /\ execs[1].h = execs[2].h
    /\ arrays[handlers[execs[1].h].middlewares] = <<"m1", "m2">>
    /\ execs[1].input = Prim("d1") /\ execs[1].initialContext = [a |-> "0", c |-> "0"]
    /\ execs[2].input = Prim("d2") /\ execs[2].initialContext = <<>>
    /\ execs[1].pc = "await_handler"
    /\ execs[2].pc = "await_middleware" /\ execs[2].mw = 1

(* C25: every validation lookup without an explicit adapter detects against *)
(* the registry as it is at that moment: the adapter whose parse is called  *)
(* for an input schema, for a part of a multi-input schema or for an output *)
(* schema is the first registered adapter accepting the schema, else the    *)
(* first built-in one accepting it, at the time of that lookup, also when   *)
(* the registry changed after the handler was built or while the call was   *)
(* suspended; with none, no parse is called.                                *)
C25_DetectionAtEachLookup ==
    [][ \A i \in DOMAIN execs' :
           LET e == execs'[i]
               h == handlers[e.h]
               t == e.trace
               before == IF i \in DOMAIN execs THEN Len(execs[i].trace) ELSE 0
               reg == registeredAdapters
               first(s) ==
                  LET hitsReg == {j \in DOMAIN reg : Detect(reg[j], s)}
                      hitsBuiltIn == {j \in 1..3 : Detect(<<"zod", "joi", "yup">>[j], s)}
                  IN  IF hitsReg # {}
                      THEN reg[CHOOSE j \in hitsReg : \A k \in hitsReg : j <= k]
                      ELSE IF hitsBuiltIn # {}
                      THEN <<"zod", "joi", "yup">>[CHOOSE j \in hitsBuiltIn :
                                                     \A k \in hitsBuiltIn : j <= k]
                      ELSE ""
           IN  \A p \in (before + 1)..Len(t) :
                  /\ t[p].ev = "detect" =>
                        /\ t[p].who = first(t[p].data.v)
                        /\ t[p].who # "" =>
                              /\ p < Len(t)
                              /\ t[p + 1].ev = "call"
                              /\ t[p + 1].stage = t[p].stage
                              /\ t[p + 1].who = t[p].who
                        /\ t[p].who = "" =>
                              (p < Len(t) => ~(t[p + 1].ev = "call" /\ t[p + 1].stage = t[p].stage))
                  /\ (t[p].ev = "call" /\ t[p].stage \in {"input", "output"}) =>
                        LET v == IF t[p].stage = "input"
                                 THEN h.inputValidator ELSE h.outputValidator
                            s == IF t[p].stage = "input" /\ h.inputValidator.isMultiInput
                                 THEN PartSchema(v.schema, ReservedKeys[t[p].idx])
                                 ELSE v.schema
                        IN  v.adapter = "" => t[p].who = first(s)
      ]_vars

\* C25 witness: in one call on a {body, query} handler built while the
\* registry was empty, body was parsed by zod, query by an adapter registered
\* while the call was suspended, and the output by zod again after the
\* registry had been cleared
C25_Witness ==
    \E i \in DOMAIN execs :
        LET e == execs[i]
            t == e.trace
        IN  /\ handlers[e.h].inputValidator.schema = "MBQ"
            /\ registeredAdapters = <<>>
            /\ \E p \in AtStage(e, "call", "input") : t[p].idx = 1 /\ t[p].who = "zod"
            /\ \E p \in AtStage(e, "call", "input") : t[p].idx = 2 /\ t[p].who = "C"
            /\ \E p \in AtStage(e, "call", "output") : t[p].who = "zod"
            /\ e.pc = "resolved"

----------------------------------------------------------------------------
(* C26: input() called with no schema returns a handler in type-only mode   *)
(* whatever validator the receiver had: the returned handler has no input   *)
(* validator, expectsMultiInput() is false and execute() hands the raw      *)
(* input on unchanged with no input parse; output() with no schema returns  *)
(* a handler with no output validator.                                      *)
C26_TypeOnlyWhateverReceiver ==
    /\ (lastCall.method = "input" /\ lastCall.arg = "U") =>
          LET h == handlers[lastCall.returned]
          IN  /\ ~h.inputValidator.present
              /\ ~expectsMultiInput(h)
              /\ \A i \in DOMAIN execs :
                    LET e == execs[i]
                    IN  e.h = lastCall.returned =>
                           /\ AtStage(e, "call", "input") = {}
                           /\ \A p \in AtStage(e, "call", "handler") :
                                 e.trace[p].data = e.input
    /\ (lastCall.method = "output" /\ lastCall.arg = "U") =>
          ~handlers[lastCall.returned].outputValidator.present

----------------------------------------------------------------------------
(* C27: input(schema2, adapter2) on a handler that already has an input     *)
(* validator replaces it entirely: the returned handler's validator is      *)
(* schema2 with adapter2, no adapter when adapter2 is omitted (so that      *)
(* execute() auto-detects and never calls the earlier explicit adapter),    *)
(* and the multi-input flag computed from schema2 alone.  output() replaces *)
(* the output validator and handle() the handler function in the same way.  *)
C27_ReattachReplaces ==
    [][ /\ \A a \in ReattachInputArgs :
              (a[1] # "U" /\ Input(Last, a[1], a[2])) =>
                 handlers'[Len(handlers')].inputValidator =
                    [present |-> TRUE, schema |-> a[1], adapter |-> a[2],
                     isMultiInput |-> detectMultiInput(a[1])]
        /\ \A a \in ReattachOutputArgs :
              (a[1] # "U" /\ Output(Last, a[1], a[2])) =>
                 handlers'[Len(handlers')].outputValidator =
                    [present |-> TRUE, schema |-> a[1], adapter |-> a[2]]
        /\ \A fn \in ChainFns :
              Handle(Last, fn) => handlers'[Len(handlers')].handlerFn = fn
        /\ \A i \in DOMAIN execs' :
              LET e == execs'[i]
                  h == handlers[e.h]
                  t == e.trace
              IN  /\ (h.inputValidator.present /\ h.inputValidator.adapter = "") =>
                        \A p \in AtStage(e, "call", "input") : t[p].who # "X"
                  /\ (h.outputValidator.present /\ h.outputValidator.adapter = "") =>
                        \A p \in AtStage(e, "call", "output") : t[p].who # "X"
                  /\ \A p \in AtStage(e, "settle", "handler") :
                        t[p].data.tag # "error" =>
                           t[p].data.fn = h.handlerFn
      ]_vars

\* C27 witness: after input(zod, X), input(plain) was called with no adapter
\* and then handle(f1); the call on the resulting handler resolved with f1's
\* output for the raw input, no parse having been called
C27_Witness ==
    /\ Len(handlers) = 4
    /\ handlers[2].inputValidator =
          [present |-> TRUE, schema |-> "Z", adapter |-> "X", isMultiInput |-> FALSE]
    /\ handlers[3].inputValidator =
          [present |-> TRUE, schema |-> "P", adapter |-> "", isMultiInput |-> FALSE]
    /\ lastCall = Call("handle", 3, "f1", 4)
    /\ handlers[4].inputValidator = handlers[3].inputValidator
    /\ \E i \in DOMAIN execs :
          /\ execs[i].h = 4
          /\ execs[i].pc = "resolved"
          /\ AtStage(execs[i], "call", "input") = {}
          /\ execs[i].result = HandlerOutput("f1", execs[i].input, execs[i].context)

----------------------------------------------------------------------------
(* Helpers for the framework callbacks.                                     *)

\* the positions of the callback's calls of one of the named functions
CallsOf(r, fns) == {p \in DOMAIN r.calls : r.calls[p].fn \in fns}

\* what the platform sends as the response body with its default status when
\* the callback has not set one
SentWithDefaultStatus(r, body) ==
    /\ CallsOf(r, {"res.status", "reply.status", "res.set", "reply.header", "c.header"}) = {}
    /\ CASE r.platform = "express" -> r.calls = <<FrameworkCall("res.json", <<body>>)>>
         [] r.platform = "fastify" -> r.calls = <<>> /\ r.value = body
         [] r.platform = "hono"    -> r.calls = <<FrameworkCall("c.json", <<body>>)>>

(* C28: on every platform, when execute() resolved with an envelope         *)
(* {status: number, body, headers?} the callback applies the status,        *)
(* applies each header, and sends the body alone; for any other result it   *)
(* sends the whole result as the body with the default status.              *)
C28_EnvelopeApplied ==
    \A j \in DOMAIN responses :
        LET r == responses[j]
            e == execs[r.exec]
            result == e.result
        IN  (r.pc # "await_execute" /\ e.pc = "resolved") =>
               IF isResponseObject(result)
               THEN /\ \E p \in DOMAIN r.calls :
                          \/ r.calls[p] = FrameworkCall("res.status", <<result.f["status"]>>)
                          \/ r.calls[p] = FrameworkCall("reply.status", <<result.f["status"]>>)
                          \/ r.calls[p] = FrameworkCall("c.json", <<result.f["body"],
                                                                    result.f["status"]>>)
                    /\ "headers" \in DOMAIN result.f =>
                          \A k \in DOMAIN result.f["headers"].f :
                             \E p \in CallsOf(r, {"res.set", "reply.header", "c.header"}) :
                                r.calls[p].args = <<k, result.f["headers"].f[k]>>
                    /\ \E p \in CallsOf(r, {"res.json", "reply.send", "c.json"}) :
                          r.calls[p].args[1] = result.f["body"]
               ELSE SentWithDefaultStatus(r, result)

(* C29: when execute() rejects inside a framework callback, the identical   *)
(* error goes to the platform's error channel and no response is written:   *)
(* the Express callback calls next(error) exactly once and nothing on res,  *)
(* the Fastify and Hono callbacks reject with that error and call nothing;  *)
(* and while execute() is pending no callback has called anything.          *)
C29_ErrorForwarded ==
    \A j \in DOMAIN responses :
        LET r == responses[j]
            e == execs[r.exec]
        IN  /\ r.pc = "await_execute" => r.calls = <<>>
            /\ (r.pc # "await_execute" /\ e.pc = "rejected") =>
                  CASE r.platform = "express" ->
                          /\ r.calls = <<FrameworkCall("next", <<e.result>>)>>
                          /\ r.pc = "resolved"
                    [] r.platform \in {"fastify", "hono"} ->
                          /\ r.calls = <<>>
                          /\ r.pc = "rejected"
                          /\ r.value = e.result
            /\ (r.pc # "await_execute" /\ e.pc = "resolved") =>
                  /\ CallsOf(r, {"next"}) = {}
                  /\ r.pc = "resolved"

\* C29 witness: the Express callback has ended with the single call
\* next(error), error being the string the handler function threw, which
\* execute() rejected with
C29_Witness ==
    \E j \in DOMAIN responses :
        /\ responses[j].platform = "express"
        /\ responses[j].pc = "resolved"
        /\ execs[responses[j].exec].pc = "rejected"
        /\ execs[responses[j].exec].result = ThrownString
        /\ responses[j].calls = <<FrameworkCall("next", <<ThrownString>>)>>

----------------------------------------------------------------------------
(* Helpers for the logger calls of a call of execute().                     *)

\* the stage whose parse or function call failed, "" when none has
FailedStage(e) ==
    LET failed == {p \in At(e, "settle") : e.trace[p].data.tag = "error"}
    IN  IF failed = {} THEN "" ELSE e.trace[CHOOSE p \in failed : TRUE].stage

\* the logger.error calls made by the stage itself
StageLocalLogs(e) == {p \in At(e, "error") : e.trace[p].stage # "execute"}

\* the logger.error calls made by execute()'s catch block
TopLevelLogs(e) == AtStage(e, "error", "execute")

(* C30: whenever a stage fails (input validation, a middleware, the handler *)
(* function, output validation) that stage logs its own failure before the *)
(* error is re-thrown, execute() logs exactly once more at top level, and a *)
(* call that resolved has logged no error.                                  *)
C30_EveryStageLogs ==
    \A i \in DOMAIN execs :
        LET e == execs[i]
        IN  /\ e.pc = "resolved" => At(e, "error") = {}
            /\ (e.pc = "rejected" /\ FailedStage(e) # "") =>
                  /\ Cardinality(StageLocalLogs(e)) = 1
                  /\ Cardinality(TopLevelLogs(e)) = 1
                  /\ \A p \in StageLocalLogs(e), q \in TopLevelLogs(e) : p < q

(* C30 as the code has it: a failed input or output parse is logged by      *)
(* validateInput / validateOutput with the error the parse threw, on the    *)
(* handler's logger, right after the failure; a failed middleware or        *)
(* handler function has no log of its own; in every rejected call the last  *)
(* thing execute() does is one top-level log of the error it rejects with,  *)
(* on the handler's logger; a call that resolved or is pending has logged   *)
(* no error.                                                                *)
C30_ValidationStagesLog ==
    \A i \in DOMAIN execs :
        LET e == execs[i]
            t == e.trace
            logger == handlers[e.h].config.logger
            local == StageLocalLogs(e)
            top == TopLevelLogs(e)
        IN  /\ e.pc # "rejected" => At(e, "error") = {}
            /\ e.pc = "rejected" =>
                  /\ top = {Len(t)}
                  /\ t[Len(t)].who = "Handler execution failed"
                  /\ t[Len(t)].data = e.result
                  /\ t[Len(t)].logger = logger
                  /\ IF FailedStage(e) \in {"input", "output"}
                     THEN /\ local = {Len(t) - 1}
                          /\ t[Len(t) - 1].stage = FailedStage(e)
                          /\ t[Len(t) - 1].who =
                                (IF FailedStage(e) = "input"
                                 THEN "Input validation failed"
                                 ELSE "Output validation failed")
                          /\ t[Len(t) - 2].ev = "settle"
                          /\ t[Len(t) - 2].stage = FailedStage(e)
                          /\ t[Len(t) - 1].data = t[Len(t) - 2].data
                          /\ t[Len(t) - 1].logger = logger
                     ELSE local = {}

\* C30 witness: a call on a handler created with its own logger, after
\* configure({logger}) set another one globally, was rejected by a failed
\* output parse: two logger.error calls, both on the handler's logger
C30_Witness ==
    \E i \in DOMAIN execs :
        LET e == execs[i]
        IN  /\ e.pc = "rejected"
            /\ globalConfig.logger = "customLogger"
            /\ handlers[e.h].config.logger = "instanceLogger"
            /\ FailedStage(e) = "output"
            /\ Cardinality(At(e, "error")) = 2
            /\ \A p \in At(e, "error") : e.trace[p].logger = "instanceLogger"

----------------------------------------------------------------------------
----------------------------------------------------------------------------
(* C32: nothing is retried within one execute(): each entry of the          *)
(* middleware array, the handler function, the parse of the input schema or *)
(* of each declared part, and the parse of the output schema is called at   *)
(* most once, each call settles at most once, and no transform function is  *)
(* called; in a call that resolved, every entry of the middleware array and *)
(* the handler function were called exactly once, and so was every parse    *)
(* whose stage was gated on and had an adapter.                             *)
C32_NoRetry ==
    \A i \in DOMAIN execs :
        LET e == execs[i]
            t == e.trace
            h == handlers[e.h]
            iv == h.inputValidator
            ov == h.outputValidator
            calls(stage, idx) ==
                {p \in AtStage(e, "call", stage) : t[p].idx = idx}
            settles(stage, idx) ==
                {p \in AtStage(e, "settle", stage) : t[p].idx = idx}
            resolvable(explicit, schema) ==
                explicit # "" \/ \E p \in At(e, "detect") :
                                     t[p].data = Prim(schema) /\ t[p].who # ""
        IN  /\ \A p, q \in At(e, "call") :
                  (t[p].stage = t[q].stage /\ t[p].idx = t[q].idx) => p = q
            /\ \A p, q \in At(e, "settle") :
                  (t[p].stage = t[q].stage /\ t[p].idx = t[q].idx) => p = q
            /\ \A p \in At(e, "settle") : calls(t[p].stage, t[p].idx) # {}
            /\ AtStage(e, "call", "transform") = {}
            /\ Cardinality(At(e, "error")) <= 2
            /\ e.pc = "resolved" =>
                  /\ \A k \in 1..Len(arrays[h.middlewares]) :
                        Cardinality(calls("middleware", k)) = 1
                  /\ Cardinality(calls("handler", 0)) = 1
                  /\ \A p \in At(e, "call") : Cardinality(settles(t[p].stage, t[p].idx)) = 1
                  /\ (h.config.validateInput /\ iv.present /\ ~iv.isMultiInput
                        /\ resolvable(iv.adapter, iv.schema)) =>
                        Cardinality(calls("input", 0)) = 1
                  /\ (h.config.validateInput /\ iv.present /\ iv.isMultiInput) =>
                        \A k \in DOMAIN ReservedKeys :
                           (/\ ReservedKeys[k] \in InKeys(iv.schema)
                            /\ resolvable(iv.adapter, PartSchema(iv.schema, ReservedKeys[k]))) =>
                              Cardinality(calls("input", k)) = 1
                  /\ (h.config.validateOutput /\ ov.present
                        /\ resolvable(ov.adapter, ov.schema)) =>
                        Cardinality(calls("output", 0)) = 1

\* C32 witness: a call on a handler with the same middleware at both places
\* of its array was rejected by the handler function after both entries and
\* two input parts had been called, each once
C32_Witness ==
    \E i \in DOMAIN execs :
        LET e == execs[i]
            h == handlers[e.h]
        IN  /\ arrays[h.middlewares] = <<"m1", "m1">>
            /\ h.inputValidator.isMultiInput
            /\ e.pc = "rejected"
            /\ Cardinality(AtStage(e, "call", "input")) = 2
            /\ Cardinality(AtStage(e, "call", "middleware")) = 2
            /\ Cardinality(AtStage(e, "call", "handler")) = 1
            /\ \E p \in AtStage(e, "settle", "handler") : e.trace[p].data = PlainError

----------------------------------------------------------------------------
----------------------------------------------------------------------------
(* C34: whenever validation runs and no adapter is resolved for a schema, a *)
(* warning is logged for it: for the single input schema, for the output    *)
(* schema, and for each declared part of a multi-input schema that has no   *)
(* adapter.                                                                 *)
C34_WarningPerMissingAdapter ==
    \A i \in DOMAIN execs :
        LET e == execs[i]
            t == e.trace
        IN  \A p \in At(e, "detect") :
               t[p].who = "" =>
                  /\ p < Len(t)
                  /\ t[p + 1].ev = "warn"
                  /\ t[p + 1].stage = t[p].stage

(* C34 as the code has it: when no adapter is found for the single input    *)
(* schema, or for the output schema, the next thing the call does is log    *)
(* one warning on the handler's logger; a declared part of a multi-input    *)
(* schema with no adapter is passed through with no warning at all; and no  *)
(* warning is logged for anything else.                                     *)
C34_WarningForWholeSchemasOnly ==
    \A i \in DOMAIN execs :
        LET e == execs[i]
            t == e.trace
            h == handlers[e.h]
            multi(stage) == stage = "input" /\ h.inputValidator.isMultiInput
        IN  /\ \A p \in At(e, "detect") :
                  (t[p].who = "" /\ ~multi(t[p].stage)) =>
                     /\ p < Len(t)
                     /\ t[p + 1].ev = "warn"
                     /\ t[p + 1].stage = t[p].stage
                     /\ t[p + 1].who =
                           (IF t[p].stage = "input"
                            THEN "No validator adapter found for input schema, skipping validation"
                            ELSE "No validator adapter found for output schema, skipping validation")
                     /\ t[p + 1].logger = h.config.logger
            /\ \A q \in At(e, "warn") :
                  /\ ~multi(t[q].stage)
                  /\ q > 1
                  /\ t[q - 1].ev = "detect"
                  /\ t[q - 1].who = ""
                  /\ t[q - 1].stage = t[q].stage
            /\ Cardinality(AtStage(e, "warn", "input")) <= 1
            /\ Cardinality(AtStage(e, "warn", "output")) <= 1

\* C34 witness: a call resolved on a handler with the input schema
\* {body: zod, query: plain object} and a plain object as output schema, no
\* adapter registered: the query part was found without adapter and passed
\* on silently, the output schema was warned about
C34_Witness ==
    \E i \in DOMAIN execs :
        LET e == execs[i]
            t == e.trace
            h == handlers[e.h]
        IN  /\ h.inputValidator.schema = "MBQ" /\ h.inputValidator.adapter = ""
            /\ h.outputValidator.schema = "P" /\ h.outputValidator.adapter = ""
            /\ e.pc = "resolved"
            /\ \E p \in AtStage(e, "detect", "input") :
                  t[p].who = "" /\ t[p].data = Prim("P")
            /\ AtStage(e, "warn", "input") = {}
            /\ Cardinality(AtStage(e, "warn", "output")) = 1

----------------------------------------------------------------------------
(* C35: execute() never changes the initial context object its caller      *)
(* passed: at every moment of the call, and after it has resolved or        *)
(* rejected, the caller's object has the keys and values it was passed      *)
(* with; the context object a middleware or the handler function is called  *)
(* with is never the caller's object but one execute() made, and the first  *)
(* one is a shallow copy of the caller's.                                   *)
C35_InitialContextUntouched ==
    \A i \in DOMAIN execs :
        LET e == execs[i]
            t == e.trace
            passed == {p \in At(e, "call") : t[p].stage \in {"middleware", "handler"}}
        IN  /\ e.callerContext = e.initialContext
            /\ e.pc \in {"await_middleware", "await_handler"} => e.contextRef = "own"
            /\ e.contextRef # "caller"
            /\ \A p \in passed :
                  (\A q \in passed : p <= q) =>
                     /\ DOMAIN t[p].context = DOMAIN e.initialContext
                     /\ \A key \in DOMAIN e.initialContext :
                           t[p].context[key] = e.initialContext[key]

\* C35 witness: a call passed {a: "0", c: "0"} resolved after a middleware
\* returned another value for a: the handler function was called with the
\* new value, the caller's object still has the old one
C35_Witness ==
    \E i \in DOMAIN execs :
        LET e == execs[i]
            t == e.trace
        IN  /\ e.pc = "resolved"
            /\ e.initialContext = [a |-> "0", c |-> "0"]
            /\ e.callerContext = [a |-> "0", c |-> "0"]
            /\ \E p \in AtStage(e, "call", "handler") :
                  t[p].context["a"] = "1" /\ t[p].context["c"] = "0"

----------------------------------------------------------------------------
(* C36: the handler a chain call (input, use, handle, output) returns has   *)
(* the configuration of its receiver, key for key, whatever configure() and *)
(* resetConfig() calls were made since the factory call: all handlers of    *)
(* one chain have the configuration the factory gave the first one, and so  *)
(* gate validation alike.                                                   *)
C36_ChainKeepsSnapshot ==
    [][ /\ Len(handlers') > Len(handlers) =>
              \/ lastCall'.method = "handler"
              \/ /\ lastCall'.receiver \in DOMAIN handlers
                 /\ handlers'[Len(handlers')].config = handlers[lastCall'.receiver].config
        /\ \A i \in DOMAIN handlers :
              /\ handlers'[i].config = handlers[i].config
              /\ handlers'[i].config = handlers'[1].config
              /\ InputGate(handlers'[i]) = InputGate(handlers'[1])
              /\ OutputGate(handlers'[i]) = OutputGate(handlers'[1])
      ]_vars

\* C36 witness: the factory was called while the global configuration had a
\* custom logger and input validation off; after resetConfig() three chain
\* calls followed, and the last handler still has the factory's snapshot
C36_Witness ==
    /\ Len(handlers) = 4
    /\ globalConfig = defaultConfig
    /\ instanceOverrides[4] = <<>>
    /\ handlers[4].config.logger = "customLogger"
    /\ ~handlers[4].config.validateInput
    /\ handlers[4].inputValidator.present
    /\ handlers[4].handlerFn = "f1"

----------------------------------------------------------------------------
(* Helpers for the order of the parts.                                      *)

\* the part of the request a value comes from
PartOf(data) ==
    CASE data \in {Prim("b1"), Prim("b2")} -> "body"
      [] data \in {Prim("q1"), Prim("q2")} -> "query"
      [] data \in {Prim("p1"), Prim("p2")} -> "params"
      [] data \in {Prim("h1"), Prim("h2")} -> "headers"
      [] OTHER -> ""

\* the place of a part in the order body, query, params, headers
PartRank(key) ==
    CASE key = "body" -> 1 [] key = "query" -> 2 [] key = "params" -> 3
      [] key = "headers" -> 4 [] OTHER -> 0

(* C37: the declared parts of a multi-input are parsed in the order body,   *)
(* query, params, headers whatever the order of the schema object's keys,   *)
(* each with its own part of the request and only after the parse before    *)
(* it has settled; once the parse of a part has failed no other part is     *)
(* parsed, nothing else is called and execute() rejects.                    *)
C37_PartsInFixedOrder ==
    \A i \in DOMAIN execs :
        LET e == execs[i]
            t == e.trace
            iv == handlers[e.h].inputValidator
            calls == AtStage(e, "call", "input")
        IN  iv.isMultiInput =>
               /\ \A p \in calls :
                     /\ PartOf(t[p].data) \in InKeys(iv.schema)
                     /\ t[p].data = Get(e.input, PartOf(t[p].data))
               /\ \A p, q \in calls :
                     p < q =>
                        /\ PartRank(PartOf(t[p].data)) < PartRank(PartOf(t[q].data))
                        /\ \E r \in (p + 1)..(q - 1) :
                              /\ t[r].ev = "settle" /\ t[r].stage = "input"
                              /\ t[r].data.tag # "error"
               /\ \A r \in AtStage(e, "settle", "input") :
                     t[r].data.tag = "error" =>
                        /\ \A p \in At(e, "call") : p < r
                        /\ e.pc = "rejected"

\* C37 witness: on a handler whose schema object was written {headers,
\* params, body}, body and params were parsed in that order, the parse of
\* params failed, and the call was rejected with headers never parsed
C37_Witness ==
    \E i \in DOMAIN execs :
        LET e == execs[i]
            t == e.trace
            iv == handlers[e.h].inputValidator
        IN  /\ iv.schema = "MHPB"
            /\ KeysInOrder(iv.schema) = <<"headers", "params", "body">>
            /\ e.pc = "rejected"
            /\ [p \in 1..Len(SelectSeq(t, LAMBDA x : x.ev = "call")) |->
                   SelectSeq(t, LAMBDA x : x.ev = "call")[p].data]
                  = <<Get(e.input, "body"), Get(e.input, "params")>>
            /\ \E r \in AtStage(e, "settle", "input") : t[r].data = PlainError

----------------------------------------------------------------------------
====
